---- MODULE Spec2Model ----
(***************************************************************************)
(* A model of the memory leak detection engine of the website monitor      *)
(* (src/src/detectors/memory_leak_detector.py, class MemoryLeakDetector).  *)
(*                                                                         *)
(* The engine is a record whose fields carry the names of the attributes   *)
(* of MemoryLeakDetector; every method is an operator from engine records  *)
(* to engine records (or to the value the method returns).  A memory value *)
(* of v megabytes is held as the integer v * UnitsPerMb, and an instant as *)
(* whole seconds: the comparisons the code makes in floating point         *)
(* (x < prev * 0.9, x > avg * 1.5, ...) are made exactly, by               *)
(* cross-multiplication, and a mean is kept as the reduced fraction        *)
(* sum / count.                                                            *)
(***************************************************************************)
EXTENDS Integers, Sequences, FiniteSets, TLC

VARIABLES
    det,        \* the MemoryLeakDetector under test
    fresh,      \* a second engine, constructed anew (same configuration) at
                \* the moment det was last reset and fed the same calls since
    ingested,   \* every sample handed to det since construction / last reset
    returned,   \* what the last call returned: add_memory_sample's list of
                \* signals; None for the constructor and reset_detector
    op,         \* the last operation: "construct", "ingest" or "reset"
    env,        \* the caller: clock, budgets used, the previous call's input
    threads,    \* the callers that are inside add_memory_sample at once:
                \* for each its position in the method and its locals (the
                \* empty tuple where calls are made one after the other)
    monitor     \* the WebsiteMonitor and the position of start_monitoring
                \* (None where no monitoring session is modelled)

vars == <<det, fresh, ingested, returned, op, env, threads, monitor>>

-----------------------------------------------------------------------------
(* Bounds of the checked environments.                                     *)

\* sampling_window_minutes ranges over 1..MaxWindowMinutes
MaxWindowMinutes == 1
\* calls of add_memory_sample per session in the "long" environment
MaxLongIngest == 72
\* calls per session in the "reload" environment (reload_count is free)
MaxReloadIngest == 4
\* calls per session in the "gc" environment (js heap and clock skew free)
MaxGcIngest == 3
\* calls of reset_detector per run
MaxResets == 1
\* reload_count ranges over 0..MaxReload
MaxReload == 2
\* seconds the clock may advance between two reads made by one call
MaxSkew == 1
\* resolution of the memory values: the smallest difference between two
\* values is 1 / UnitsPerMb megabytes
UnitsPerMb == 2

-----------------------------------------------------------------------------
(* Python values.                                                          *)

\* Optional values: None, or a one-element tuple holding the value.
None == <<>>
Some(v) == <<v>>

\* dict.get(key, default)
Get(d, key, default) == IF key \in DOMAIN d THEN d[key] ELSE default

Abs(a) == IF a < 0 THEN -a ELSE a

RECURSIVE Gcd(_, _)
Gcd(a, b) == IF b = 0 THEN a ELSE Gcd(b, a % b)

\* The fraction num / den (den > 0), reduced.
Frac(num, den) ==
    LET g == Gcd(Abs(num), den)
    IN  [num |-> num \div g, den |-> den \div g]

\* sum(s[lo-1:hi]), halving the range
RECURSIVE SumRange(_, _, _)
SumRange(s, lo, hi) ==
    IF lo > hi THEN 0
    ELSE IF lo = hi THEN s[lo]
    ELSE LET mid == (lo + hi) \div 2
         IN  SumRange(s, lo, mid) + SumRange(s, mid + 1, hi)

Sum(s) == SumRange(s, 1, Len(s))

\* s[-k:] of Python
LastN(s, k) ==
    IF Len(s) <= k THEN s ELSE SubSeq(s, Len(s) - k + 1, Len(s))

\* statistics.mean of a non-empty list of numbers
Mean(s) == Frac(Sum(s), Len(s))

Field(s, f) == [i \in 1..Len(s) |-> s[i][f]]

\* The float v (megabytes, v whole) as it is held here.
Mb(v) == v * UnitsPerMb

-----------------------------------------------------------------------------
(* Configuration: the default of ConfigManager, with the sampling window   *)
(* chosen by the environment.                                              *)

GrowthRateThresholdMbPerMin == 10
TotalGrowthThresholdMb == 500
PercentageGrowthThreshold == 200
NoGcDurationThresholdSeconds == 300
CumulativeLeakPerReloadMb == 10
ShortTermWindowSeconds == 300
MediumTermWindowSeconds == 1800
LongTermWindowSeconds == 3600

DefaultConfig(minutes) ==
    [ sampling_window_minutes |-> minutes,
      detection_thresholds |->
        [ chrome_process_memory |->
            [ growth_rate_threshold_mb_per_min |-> Mb(GrowthRateThresholdMbPerMin),
              total_growth_threshold_mb |-> Mb(TotalGrowthThresholdMb),
              percentage_growth_threshold |-> PercentageGrowthThreshold ],
          js_heap_memory |->
            [ no_gc_duration_threshold_seconds |-> NoGcDurationThresholdSeconds ],
          per_reload_analysis |->
            [ cumulative_leak_per_reload_mb |-> Mb(CumulativeLeakPerReloadMb) ] ],
      \* a dict iterates in insertion order
      trend_analysis |->
        << [name |-> "short_term_window_seconds", seconds |-> ShortTermWindowSeconds],
           [name |-> "medium_term_window_seconds", seconds |-> MediumTermWindowSeconds],
           [name |-> "long_term_window_seconds", seconds |-> LongTermWindowSeconds] >> ]

-----------------------------------------------------------------------------
(* The engine.                                                             *)

\* Samples needed before a baseline is taken, and for the analysis to run.
BaselineSamples == 10
MinAnalysisSamples == 60

\* MemoryLeakDetector.__init__
NewDetector(config) ==
    [ config |-> config,
      max_samples |-> config.sampling_window_minutes * 60,
      memory_history |-> <<>>,
      reload_boundaries |-> <<>>,
      baseline_chrome_memory |-> None,
      baseline_js_heap |-> None,
      baseline_established |-> FALSE,
      leak_alerts |-> <<>>,
      last_gc_time |-> None,
      thresholds |-> config.detection_thresholds,
      trend_windows |-> config.trend_analysis ]

\* Mutant: a list that is never trimmed.
DequeAppendUnbounded(q, maxlen, x) == Append(q, x)

\* deque(maxlen = n).append(x)
DequeAppend(q, maxlen, x) ==
    IF maxlen = 0 THEN q
    ELSE IF Len(q) >= maxlen THEN Append(Tail(q), x)
    ELSE Append(q, x)

\* Mutant: a field the metrics lack is stored as -1.
MakeSampleMarkingAbsent(metrics, reload_count, timestamp) ==
    [ timestamp |-> timestamp,
      chrome_memory |-> Get(metrics, "chrome_memory_mb", -1),
      js_heap |-> Get(metrics, "js_heap_mb", -1),
      system_memory |-> Get(metrics, "system_memory_percent", -1),
      reload_count |-> reload_count ]

\* The sample add_memory_sample builds from its arguments.
MakeSample(metrics, reload_count, timestamp) ==
    [ timestamp |-> timestamp,
      chrome_memory |-> Get(metrics, "chrome_memory_mb", 0),
      js_heap |-> Get(metrics, "js_heap_mb", 0),
      system_memory |-> Get(metrics, "system_memory_percent", 0),
      reload_count |-> reload_count ]

\* Mutant: a boundary on every change of the reload count.
TrackReloadBoundaryOnChange(e, sample) ==
    LET h == e.memory_history
    IN  IF Len(h) > 1 /\ sample.reload_count # h[Len(h) - 1].reload_count
        THEN [e EXCEPT !.reload_boundaries =
                Append(@, [ timestamp |-> sample.timestamp,
                            reload_count |-> sample.reload_count,
                            chrome_memory |-> sample.chrome_memory,
                            js_heap |-> sample.js_heap ])]
        ELSE e

\* Mutant: a boundary also when the reload count is the same as before.
TrackReloadBoundaryNotBelow(e, sample) ==
    LET h == e.memory_history
    IN  IF Len(h) > 1 /\ sample.reload_count >= h[Len(h) - 1].reload_count
        THEN [e EXCEPT !.reload_boundaries =
                Append(@, [ timestamp |-> sample.timestamp,
                            reload_count |-> sample.reload_count,
                            chrome_memory |-> sample.chrome_memory,
                            js_heap |-> sample.js_heap ])]
        ELSE e

\* Mutant: only the boundaries the per-reload analysis reads are kept.
TrackReloadBoundaryKeepingFive(e, sample) ==
    LET h == e.memory_history
    IN  IF Len(h) > 1 /\ sample.reload_count > h[Len(h) - 1].reload_count
        THEN [e EXCEPT !.reload_boundaries =
                LastN(Append(@, [ timestamp |-> sample.timestamp,
                                  reload_count |-> sample.reload_count,
                                  chrome_memory |-> sample.chrome_memory,
                                  js_heap |-> sample.js_heap ]), 5)]
        ELSE e

\* add_memory_sample: the reload boundary tracked for the sample just appended
TrackReloadBoundary(e, sample) ==
    LET h == e.memory_history
    IN  IF Len(h) > 1 /\ sample.reload_count > h[Len(h) - 1].reload_count
        THEN [e EXCEPT !.reload_boundaries =
                Append(@, [ timestamp |-> sample.timestamp,
                            reload_count |-> sample.reload_count,
                            chrome_memory |-> sample.chrome_memory,
                            js_heap |-> sample.js_heap ])]
        ELSE e

\* Mutant: the baseline over the five latest samples.
establish_baseline_of_five(e) ==
    IF Len(e.memory_history) < BaselineSamples THEN e
    ELSE LET recent_samples == LastN(e.memory_history, 5)
         IN  [e EXCEPT
                !.baseline_chrome_memory = Some(Mean(Field(recent_samples, "chrome_memory"))),
                !.baseline_js_heap = Some(Mean(Field(recent_samples, "js_heap"))),
                !.baseline_established = TRUE]

\* Mutant: a baseline that is established is left alone.
establish_baseline_once(e) ==
    IF e.baseline_established \/ Len(e.memory_history) < BaselineSamples THEN e
    ELSE LET recent_samples == LastN(e.memory_history, BaselineSamples)
         IN  [e EXCEPT
                !.baseline_chrome_memory = Some(Mean(Field(recent_samples, "chrome_memory"))),
                !.baseline_js_heap = Some(Mean(Field(recent_samples, "js_heap"))),
                !.baseline_established = TRUE]

\* MemoryLeakDetector._establish_baseline
establish_baseline(e) ==
    IF Len(e.memory_history) < BaselineSamples THEN e
    ELSE LET recent_samples == LastN(e.memory_history, BaselineSamples)
         IN  [e EXCEPT
                !.baseline_chrome_memory = Some(Mean(Field(recent_samples, "chrome_memory"))),
                !.baseline_js_heap = Some(Mean(Field(recent_samples, "js_heap"))),
                !.baseline_established = TRUE]

\* Mutant: the baseline is due whenever ten samples are held.
baseline_due_whenever(e) == Len(e.memory_history) >= BaselineSamples

\* add_memory_sample: the test under which it calls _establish_baseline
baseline_due(e) ==
    ~e.baseline_established /\ Len(e.memory_history) >= BaselineSamples

\* Mutant: the baseline taken again on every call.
MaybeEstablishBaselineAgain(e) ==
    IF Len(e.memory_history) >= BaselineSamples
    THEN establish_baseline(e)
    ELSE e

\* add_memory_sample: "Establish baseline if not set"
MaybeEstablishBaseline(e) ==
    IF ~e.baseline_established /\ Len(e.memory_history) >= BaselineSamples
    THEN establish_baseline(e)
    ELSE e

\* Mutant: a drop to exactly nine tenths counts.
IsHeapDropOrEqual(current_js_heap, prev_heap) == 10 * current_js_heap <= 9 * prev_heap

\* The test of _detect_gc_events: current_js_heap < prev_heap * 0.9
IsHeapDrop(current_js_heap, prev_heap) == 10 * current_js_heap < 9 * prev_heap

\* Mutant: the GC is dated by the sample before the drop.
detect_gc_events_dated_before(e, current_js_heap, gc_clock) ==
    LET h == e.memory_history
    IN  IF Len(h) < 2 THEN e
        ELSE IF IsHeapDrop(current_js_heap, h[Len(h) - 1].js_heap)
             THEN [e EXCEPT !.last_gc_time = Some(h[Len(h) - 1].timestamp)]
             ELSE e

\* MemoryLeakDetector._detect_gc_events; gc_clock is what datetime.now()
\* returns when the method reads it.
detect_gc_events(e, current_js_heap, gc_clock) ==
    LET h == e.memory_history
    IN  IF Len(h) < 2 THEN e
        ELSE IF IsHeapDrop(current_js_heap, h[Len(h) - 1].js_heap)
             THEN [e EXCEPT !.last_gc_time = Some(gc_clock)]
             ELSE e

\* Mutant: until the analysis runs, a call only stores its sample and takes
\* the baseline.
add_memory_sample_tracking_once_analysed(e, metrics, reload_count, timestamp, gc_clock) ==
    LET sample == MakeSample(metrics, reload_count, timestamp)
        e1 == [e EXCEPT !.memory_history = DequeAppend(@, e.max_samples, sample)]
        e3 == MaybeEstablishBaseline(e1)
    IN  IF e3.baseline_established /\ Len(e3.memory_history) >= MinAnalysisSamples
        THEN detect_gc_events(MaybeEstablishBaseline(TrackReloadBoundary(e1, sample)),
                              sample.js_heap, gc_clock)
        ELSE e3

\* MemoryLeakDetector.add_memory_sample, its effect on the engine.  The call
\* reads the clock for the sample's timestamp, and again in _detect_gc_events.
add_memory_sample(e, metrics, reload_count, timestamp, gc_clock) ==
    LET sample == MakeSample(metrics, reload_count, timestamp)
        e1 == [e EXCEPT !.memory_history = DequeAppend(@, e.max_samples, sample)]
        e2 == TrackReloadBoundary(e1, sample)
        e3 == MaybeEstablishBaseline(e2)
    IN  detect_gc_events(e3, sample.js_heap, gc_clock)

\* Mutant: a reset that forgets to clear the reload boundaries.
reset_detector_keeps_boundaries(e) ==
    [e EXCEPT !.memory_history = <<>>,
              !.baseline_chrome_memory = None,
              !.baseline_js_heap = None,
              !.baseline_established = FALSE,
              !.leak_alerts = <<>>,
              !.last_gc_time = None]

\* Mutant: a reset that forgets to clear the last-GC time.
reset_detector_keeps_gc_time(e) ==
    [e EXCEPT !.memory_history = <<>>,
              !.reload_boundaries = <<>>,
              !.baseline_chrome_memory = None,
              !.baseline_js_heap = None,
              !.baseline_established = FALSE,
              !.leak_alerts = <<>>]

\* Mutant: a reset that forgets to clear the history.
reset_detector_keeps_history(e) ==
    [e EXCEPT !.reload_boundaries = <<>>,
              !.baseline_chrome_memory = None,
              !.baseline_js_heap = None,
              !.baseline_established = FALSE,
              !.leak_alerts = <<>>,
              !.last_gc_time = None]

\* value - f for an integer value and a fraction f
MinusFrac(value, f) == Frac(value * f.den - f.num, f.den)

\* datetime.isoformat(): the instant as text, here the seconds it stands for
isoformat(t) == [isoformat |-> t]

\* Mutant: the growth since the baseline reported as soon as there is a
\* sample, as 0 while no baseline is established.
get_memory_statistics_always_growth(e) ==
    IF e.memory_history = <<>> THEN <<>>
    ELSE LET recent_sample == e.memory_history[Len(e.memory_history)]
         IN  [ current_chrome_memory_mb |-> recent_sample.chrome_memory,
               current_js_heap_mb |-> recent_sample.js_heap,
               baseline_chrome_memory_mb |-> e.baseline_chrome_memory,
               baseline_js_heap_mb |-> e.baseline_js_heap,
               total_samples |-> Len(e.memory_history),
               reload_boundaries_tracked |-> Len(e.reload_boundaries),
               last_gc_time |-> IF e.last_gc_time # None
                                THEN Some(isoformat(e.last_gc_time[1])) ELSE None,
               leak_alerts_count |-> Len(e.leak_alerts),
               chrome_memory_growth_mb |->
                   IF e.baseline_established
                   THEN MinusFrac(recent_sample.chrome_memory,
                                  e.baseline_chrome_memory[1])
                   ELSE Frac(0, 1),
               js_heap_growth_mb |->
                   IF e.baseline_established
                   THEN MinusFrac(recent_sample.js_heap, e.baseline_js_heap[1])
                   ELSE Frac(0, 1) ]

\* MemoryLeakDetector.get_memory_statistics: the dict it returns ({} for an
\* empty history)
get_memory_statistics(e) ==
    IF e.memory_history = <<>> THEN <<>>
    ELSE LET recent_sample == e.memory_history[Len(e.memory_history)]
             stats ==
                 [ current_chrome_memory_mb |-> recent_sample.chrome_memory,
                   current_js_heap_mb |-> recent_sample.js_heap,
                   baseline_chrome_memory_mb |-> e.baseline_chrome_memory,
                   baseline_js_heap_mb |-> e.baseline_js_heap,
                   total_samples |-> Len(e.memory_history),
                   reload_boundaries_tracked |-> Len(e.reload_boundaries),
                   last_gc_time |-> IF e.last_gc_time # None
                                    THEN Some(isoformat(e.last_gc_time[1]))
                                    ELSE None,
                   leak_alerts_count |-> Len(e.leak_alerts) ]
         IN  IF e.baseline_established
             THEN stats @@
                  [ chrome_memory_growth_mb |->
                        MinusFrac(recent_sample.chrome_memory,
                                  e.baseline_chrome_memory[1]),
                    js_heap_growth_mb |->
                        MinusFrac(recent_sample.js_heap, e.baseline_js_heap[1]) ]
             ELSE stats

\* Mutant: the reset clears the flag and keeps the two baseline values.
reset_detector_keeps_baseline_values(e) ==
    [e EXCEPT !.memory_history = <<>>,
              !.reload_boundaries = <<>>,
              !.baseline_established = FALSE,
              !.leak_alerts = <<>>,
              !.last_gc_time = None]

\* MemoryLeakDetector.reset_detector
reset_detector(e) ==
    [e EXCEPT !.memory_history = <<>>,
              !.reload_boundaries = <<>>,
              !.baseline_chrome_memory = None,
              !.baseline_js_heap = None,
              !.baseline_established = FALSE,
              !.leak_alerts = <<>>,
              !.last_gc_time = None]

-----------------------------------------------------------------------------
(* The leak analysis (read-only).                                          *)

\* a / b < c / d for a, c >= 0 and b, d > 0, without forming a product
RECURSIVE RatioLess(_, _, _, _)
RatioLess(a, b, c, d) ==
    IF a \div b # c \div d THEN a \div b < c \div d
    ELSE IF c % d = 0 THEN FALSE
    ELSE IF a % b = 0 THEN TRUE
    ELSE RatioLess(d, c % d, b, a % b)

\* f > k for a fraction f and an integer k
FracGt(f, k) == f.num > k * f.den

\* _linear_regression.  With n points, sxy, sxx and syy are n times the
\* centred sums of the code (numerator, denominator and ss_tot); the slope is
\* sxy / sxx, and r_squared = 1 - ss_res / ss_tot = sxy^2 / (sxx * syy) is
\* kept as the three sums.  A zero is [sxy |-> 0, sxx |-> 1, syy |-> 1].
ZeroRSquared == [sxy |-> 0, sxx |-> 1, syy |-> 1]

\* Mutant: values that are all alike fit their line perfectly.
linear_regression_perfect_when_flat(x_values, y_values) ==
    IF Len(x_values) # Len(y_values) \/ Len(x_values) < 2
    THEN [slope |-> Frac(0, 1), r_squared |-> ZeroRSquared]
    ELSE LET n == Len(x_values)
             sx == Sum(x_values)
             sy == Sum(y_values)
             sxy == n * Sum([i \in 1..n |-> x_values[i] * y_values[i]]) - sx * sy
             sxx == n * Sum([i \in 1..n |-> x_values[i] * x_values[i]]) - sx * sx
             syy == n * Sum([i \in 1..n |-> y_values[i] * y_values[i]]) - sy * sy
         IN  IF sxx = 0
             THEN [slope |-> Frac(0, 1), r_squared |-> ZeroRSquared]
             ELSE [ slope |-> Frac(sxy, sxx),
                    r_squared |-> IF syy # 0
                                  THEN [sxy |-> sxy, sxx |-> sxx, syy |-> syy]
                                  ELSE [sxy |-> 1, sxx |-> 1, syy |-> 1] ]

linear_regression(x_values, y_values) ==
    IF Len(x_values) # Len(y_values) \/ Len(x_values) < 2
    THEN [slope |-> Frac(0, 1), r_squared |-> ZeroRSquared]
    ELSE LET n == Len(x_values)
             sx == Sum(x_values)
             sy == Sum(y_values)
             sxy == n * Sum([i \in 1..n |-> x_values[i] * y_values[i]]) - sx * sy
             sxx == n * Sum([i \in 1..n |-> x_values[i] * x_values[i]]) - sx * sx
             syy == n * Sum([i \in 1..n |-> y_values[i] * y_values[i]]) - sy * sy
         IN  IF sxx = 0
             THEN [slope |-> Frac(0, 1), r_squared |-> ZeroRSquared]
             ELSE [ slope |-> Frac(sxy, sxx),
                    r_squared |-> IF syy # 0
                                  THEN [sxy |-> sxy, sxx |-> sxx, syy |-> syy]
                                  ELSE ZeroRSquared ]

\* r_squared > 0.8, that is 5 * sxy^2 > 4 * sxx * syy
RSquaredHigh(r) ==
    /\ r.sxy # 0
    /\ RatioLess(4 * r.sxx, Abs(r.sxy), 5 * Abs(r.sxy), r.syy)

\* Mutant: the divisor of the percentage is never below one megabyte.
calculate_memory_trend_floor_at_one(samples) ==
    IF Len(samples) < 2
    THEN [ growth_rate |-> Frac(0, 1), total_growth |-> 0,
           percentage_growth |-> Frac(0, 1),
           slope |-> Frac(0, 1), r_squared |-> ZeroRSquared ]
    ELSE LET times == [i \in 1..Len(samples) |->
                          samples[i].timestamp - samples[1].timestamp]
             chrome_values == Field(samples, "chrome_memory")
             total_growth == chrome_values[Len(samples)] - chrome_values[1]
             span_seconds == times[Len(samples)]
             baseline == IF chrome_values[1] > Mb(1) THEN chrome_values[1] ELSE Mb(1)
             reg == linear_regression(times, chrome_values)
         IN  [ growth_rate |-> IF span_seconds > 0
                               THEN Frac(total_growth * 60, span_seconds)
                               ELSE Frac(0, 1),
               total_growth |-> total_growth,
               percentage_growth |-> Frac(total_growth * 100, baseline),
               slope |-> reg.slope,
               r_squared |-> reg.r_squared ]

\* _calculate_memory_trend
calculate_memory_trend(samples) ==
    IF Len(samples) < 2
    THEN [ growth_rate |-> Frac(0, 1), total_growth |-> 0,
           percentage_growth |-> Frac(0, 1),
           slope |-> Frac(0, 1), r_squared |-> ZeroRSquared ]
    ELSE LET times == [i \in 1..Len(samples) |->
                          samples[i].timestamp - samples[1].timestamp]
             chrome_values == Field(samples, "chrome_memory")
             total_growth == chrome_values[Len(samples)] - chrome_values[1]
             \* time_span_minutes = times[-1] / 60
             span_seconds == times[Len(samples)]
             baseline == IF chrome_values[1] > 0 THEN chrome_values[1] ELSE Mb(1)
             reg == linear_regression(times, chrome_values)
         IN  [ growth_rate |-> IF span_seconds > 0
                               THEN Frac(total_growth * 60, span_seconds)
                               ELSE Frac(0, 1),
               total_growth |-> total_growth,
               percentage_growth |-> Frac(total_growth * 100, baseline),
               slope |-> reg.slope,
               r_squared |-> reg.r_squared ]

\* _calculate_trends: the (window name, trend) pairs in the iteration order
\* of the configured windows, the windows with fewer than 5 samples left out.
MinWindowSamples == 5

RECURSIVE TrendsOf(_, _, _)
TrendsOf(e, windows, current_time) ==
    IF windows = <<>> THEN <<>>
    ELSE LET w == Head(windows)
             cutoff_time == current_time - w.seconds
             InWindow(s) == s.timestamp >= cutoff_time
             window_samples == SelectSeq(e.memory_history, InWindow)
             rest == TrendsOf(e, Tail(windows), current_time)
         IN  IF Len(window_samples) < MinWindowSamples THEN rest
             ELSE <<[name |-> w.name,
                     trend |-> calculate_memory_trend(window_samples)]>> \o rest

calculate_trends(e, current_time) == TrendsOf(e, e.trend_windows, current_time)

\* Mutant: a total growth equal to the threshold is reported already.
RECURSIVE evaluate_trend_patterns_at_threshold(_, _)
evaluate_trend_patterns_at_threshold(e, trends) ==
    IF trends = <<>> THEN <<>>
    ELSE LET window_name == Head(trends).name
             trend == Head(trends).trend
             chrome_thresholds == e.thresholds.chrome_process_memory
         IN  (IF FracGt(trend.growth_rate,
                        chrome_thresholds.growth_rate_threshold_mb_per_min)
              THEN <<window_name \o "_rapid_growth">> ELSE <<>>)
             \o (IF trend.total_growth >= chrome_thresholds.total_growth_threshold_mb
                 THEN <<window_name \o "_excessive_growth">> ELSE <<>>)
             \o (IF FracGt(trend.percentage_growth,
                           chrome_thresholds.percentage_growth_threshold)
                 THEN <<window_name \o "_percentage_growth">> ELSE <<>>)
             \o (IF RSquaredHigh(trend.r_squared) /\ trend.slope.num > 0
                 THEN <<window_name \o "_sustained_growth">> ELSE <<>>)
             \o evaluate_trend_patterns_at_threshold(e, Tail(trends))

\* Mutant: growth is sustained only if it is also rapid.
RECURSIVE evaluate_trend_patterns_sustained_if_rapid(_, _)
evaluate_trend_patterns_sustained_if_rapid(e, trends) ==
    IF trends = <<>> THEN <<>>
    ELSE LET window_name == Head(trends).name
             trend == Head(trends).trend
             chrome_thresholds == e.thresholds.chrome_process_memory
             rapid == FracGt(trend.growth_rate,
                             chrome_thresholds.growth_rate_threshold_mb_per_min)
         IN  (IF rapid THEN <<window_name \o "_rapid_growth">> ELSE <<>>)
             \o (IF trend.total_growth > chrome_thresholds.total_growth_threshold_mb
                 THEN <<window_name \o "_excessive_growth">> ELSE <<>>)
             \o (IF FracGt(trend.percentage_growth,
                           chrome_thresholds.percentage_growth_threshold)
                 THEN <<window_name \o "_percentage_growth">> ELSE <<>>)
             \o (IF rapid /\ RSquaredHigh(trend.r_squared) /\ trend.slope.num > 0
                 THEN <<window_name \o "_sustained_growth">> ELSE <<>>)
             \o evaluate_trend_patterns_sustained_if_rapid(e, Tail(trends))

\* _evaluate_trend_patterns
RECURSIVE evaluate_trend_patterns(_, _)
evaluate_trend_patterns(e, trends) ==
    IF trends = <<>> THEN <<>>
    ELSE LET window_name == Head(trends).name
             trend == Head(trends).trend
             chrome_thresholds == e.thresholds.chrome_process_memory
         IN  (IF FracGt(trend.growth_rate,
                        chrome_thresholds.growth_rate_threshold_mb_per_min)
              THEN <<window_name \o "_rapid_growth">> ELSE <<>>)
             \o (IF trend.total_growth > chrome_thresholds.total_growth_threshold_mb
                 THEN <<window_name \o "_excessive_growth">> ELSE <<>>)
             \o (IF FracGt(trend.percentage_growth,
                           chrome_thresholds.percentage_growth_threshold)
                 THEN <<window_name \o "_percentage_growth">> ELSE <<>>)
             \o (IF RSquaredHigh(trend.r_squared) /\ trend.slope.num > 0
                 THEN <<window_name \o "_sustained_growth">> ELSE <<>>)
             \o evaluate_trend_patterns(e, Tail(trends))

\* Samples in history after which a GC that was never seen is reported.
NoGcEverSamples == 300

\* Mutant: a GC as old as the threshold is reported already.
analyze_gc_patterns_at_threshold(e, current_time) ==
    LET js_thresholds == e.thresholds.js_heap_memory
    IN  IF e.last_gc_time # None
        THEN IF current_time - e.last_gc_time[1]
                    >= js_thresholds.no_gc_duration_threshold_seconds
             THEN <<"no_garbage_collection">> ELSE <<>>
        ELSE IF Len(e.memory_history) > NoGcEverSamples
             THEN <<"no_garbage_collection_detected">> ELSE <<>>

\* Mutant: a GC never seen is reported from 300 samples.
analyze_gc_patterns_from_three_hundred(e, current_time) ==
    LET js_thresholds == e.thresholds.js_heap_memory
    IN  IF e.last_gc_time # None
        THEN IF current_time - e.last_gc_time[1]
                    > js_thresholds.no_gc_duration_threshold_seconds
             THEN <<"no_garbage_collection">> ELSE <<>>
        ELSE IF Len(e.memory_history) >= NoGcEverSamples
             THEN <<"no_garbage_collection_detected">> ELSE <<>>

\* Mutant: the two tests are made independently of each other.
analyze_gc_patterns_both_tests(e, current_time) ==
    LET js_thresholds == e.thresholds.js_heap_memory
    IN  (IF /\ e.last_gc_time # None
            /\ current_time - e.last_gc_time[1]
                    > js_thresholds.no_gc_duration_threshold_seconds
         THEN <<"no_garbage_collection">> ELSE <<>>)
        \o (IF Len(e.memory_history) > NoGcEverSamples
            THEN <<"no_garbage_collection_detected">> ELSE <<>>)

\* _analyze_gc_patterns
analyze_gc_patterns(e, current_time) ==
    LET js_thresholds == e.thresholds.js_heap_memory
    IN  IF e.last_gc_time # None
        THEN IF current_time - e.last_gc_time[1]
                    > js_thresholds.no_gc_duration_threshold_seconds
             THEN <<"no_garbage_collection">> ELSE <<>>
        ELSE IF Len(e.memory_history) > NoGcEverSamples
             THEN <<"no_garbage_collection_detected">> ELSE <<>>

\* Reload boundaries the per-reload analysis looks at.
RecentReloads == 5

\* Mutant: the growth averaged over all the boundaries ever recorded.
analyze_per_reload_patterns_over_all(e) ==
    IF Len(e.reload_boundaries) < 2 THEN <<>>
    ELSE LET reload_thresholds == e.thresholds.per_reload_analysis
             recent_reloads == e.reload_boundaries
             memory_growth_per_reload ==
                 [i \in 1..(Len(recent_reloads) - 1) |->
                     recent_reloads[i + 1].chrome_memory
                         - recent_reloads[i].chrome_memory]
         IN  IF Sum(memory_growth_per_reload)
                     > reload_thresholds.cumulative_leak_per_reload_mb
                         * Len(memory_growth_per_reload)
             THEN <<"cumulative_reload_leak">> ELSE <<>>

\* _analyze_per_reload_patterns
analyze_per_reload_patterns(e) ==
    IF Len(e.reload_boundaries) < 2 THEN <<>>
    ELSE LET reload_thresholds == e.thresholds.per_reload_analysis
             recent_reloads == LastN(e.reload_boundaries, RecentReloads)
             memory_growth_per_reload ==
                 [i \in 1..(Len(recent_reloads) - 1) |->
                     recent_reloads[i + 1].chrome_memory
                         - recent_reloads[i].chrome_memory]
         IN  IF Len(recent_reloads) >= 2
                /\ Sum(memory_growth_per_reload)
                     > reload_thresholds.cumulative_leak_per_reload_mb
                         * Len(memory_growth_per_reload)
             THEN <<"cumulative_reload_leak">> ELSE <<>>

\* Samples the spike detector looks at: the latest and the 9 before it.
SpikeSamples == 10

\* Mutant: the latest sample compared with the mean of all those before it.
detect_memory_spikes_over_history(e) ==
    IF Len(e.memory_history) < SpikeSamples THEN <<>>
    ELSE LET recent_samples == e.memory_history
             current_memory == recent_samples[Len(recent_samples)].chrome_memory
             before == SubSeq(recent_samples, 1, Len(recent_samples) - 1)
         IN  IF 2 * current_memory * Len(before)
                    > 3 * Sum(Field(before, "chrome_memory"))
             THEN <<"memory_spike_detected">> ELSE <<>>

\* _detect_memory_spikes: current_memory > recent_avg * 1.5
detect_memory_spikes(e) ==
    IF Len(e.memory_history) < SpikeSamples THEN <<>>
    ELSE LET recent_samples == LastN(e.memory_history, SpikeSamples)
             current_memory == recent_samples[Len(recent_samples)].chrome_memory
             before == SubSeq(recent_samples, 1, Len(recent_samples) - 1)
         IN  IF 2 * current_memory * Len(before)
                    > 3 * Sum(Field(before, "chrome_memory"))
             THEN <<"memory_spike_detected">> ELSE <<>>

\* What a call gives when d[key] raised: the exception, with the key.
KeyError(key) == <<"KeyError", key>>

\* The keys among keys (in the order they are read) that d does not hold.
MissingKeys(d, keys) == SelectSeq(keys, LAMBDA k : k \notin DOMAIN d)

\* _evaluate_trend_patterns, the keys it reads that the thresholds lack:
\* the category always, a threshold of the category once a trend is there.
trend_key_errors(e, current_time) ==
    IF "chrome_process_memory" \notin DOMAIN e.thresholds
    THEN <<"chrome_process_memory">>
    ELSE LET missing ==
                 MissingKeys(e.thresholds.chrome_process_memory,
                             << "growth_rate_threshold_mb_per_min",
                                "total_growth_threshold_mb",
                                "percentage_growth_threshold" >>)
         IN  IF missing = <<>> THEN <<>>
             ELSE IF calculate_trends(e, current_time) = <<>> THEN <<>>
             ELSE missing

\* _analyze_gc_patterns, likewise: the threshold is read when a GC was seen.
gc_key_errors(e) ==
    IF "js_heap_memory" \notin DOMAIN e.thresholds
    THEN <<"js_heap_memory">>
    ELSE IF e.last_gc_time = None THEN <<>>
    ELSE MissingKeys(e.thresholds.js_heap_memory,
                     <<"no_gc_duration_threshold_seconds">>)

\* _analyze_per_reload_patterns, likewise: nothing is read with fewer than
\* two boundaries.
reload_key_errors(e) ==
    IF Len(e.reload_boundaries) < 2 THEN <<>>
    ELSE IF "per_reload_analysis" \notin DOMAIN e.thresholds
    THEN <<"per_reload_analysis">>
    ELSE MissingKeys(e.thresholds.per_reload_analysis,
                     <<"cumulative_leak_per_reload_mb">>)

\* Mutant: the spike signals put first.
analyze_leak_patterns_spikes_first(e, current_time) ==
    LET trend_errors == trend_key_errors(e, current_time)
        gc_errors == gc_key_errors(e)
        reload_errors == reload_key_errors(e)
    IN  IF trend_errors # <<>> THEN KeyError(Head(trend_errors))
        ELSE IF gc_errors # <<>> THEN KeyError(Head(gc_errors))
        ELSE IF reload_errors # <<>> THEN KeyError(Head(reload_errors))
        ELSE detect_memory_spikes(e)
                \o evaluate_trend_patterns(e, calculate_trends(e, current_time))
                \o analyze_gc_patterns(e, current_time)
                \o analyze_per_reload_patterns(e)

\* _analyze_leak_patterns; the analysis reads the clock after the sample
\* was stored.  The result is the list of signals, or the KeyError of the
\* first analyzer that read a key the thresholds lack.
analyze_leak_patterns(e, current_time) ==
    LET trend_errors == trend_key_errors(e, current_time)
        gc_errors == gc_key_errors(e)
        reload_errors == reload_key_errors(e)
    IN  IF trend_errors # <<>> THEN KeyError(Head(trend_errors))
        ELSE IF gc_errors # <<>> THEN KeyError(Head(gc_errors))
        ELSE IF reload_errors # <<>> THEN KeyError(Head(reload_errors))
        ELSE evaluate_trend_patterns(e, calculate_trends(e, current_time))
                \o analyze_gc_patterns(e, current_time)
                \o analyze_per_reload_patterns(e)
                \o detect_memory_spikes(e)

\* Mutant: the analysis runs as soon as the baseline is established.
leak_signals_without_minute(e, current_time) ==
    IF e.baseline_established
    THEN analyze_leak_patterns(e, current_time)
    ELSE <<>>

\* add_memory_sample, the list it returns; e is the engine after the sample
\* was stored and the baseline and GC steps were taken.
leak_signals(e, current_time) ==
    IF e.baseline_established /\ Len(e.memory_history) >= MinAnalysisSamples
    THEN analyze_leak_patterns(e, current_time)
    ELSE <<>>

-----------------------------------------------------------------------------
(* The caller.  An environment fixes what a session may present: the       *)
(* inputs (a metrics dictionary and a reload count) of its calls, the      *)
(* seconds between two calls (period), the clock skews within one call,    *)
(* the number of calls and of resets, and the methods it calls besides     *)
(* add_memory_sample and reset_detector.  In an ordered environment the    *)
(* inputs are the phases of a workload and a session moves through them    *)
(* forward only, staying in the first phase for its first hold calls;      *)
(* otherwise every call is free to present any of the inputs.              *)

\* Seconds between two calls: the cadence the engine assumes (one sample
\* per second, capacity = minutes * 60).
SamplePeriodSeconds == 1

Reading(chrome, heap) ==
    [ chrome_memory_mb |-> Mb(chrome), js_heap_mb |-> Mb(heap),
      system_memory_percent |-> 50 ]

\* a dictionary without any of the three numeric fields
NoNumbers == [cpu_percent |-> 5]

Input(metrics, reload_count) == [metrics |-> metrics, reload_count |-> reload_count]

\* A long session: the page holds 100 MB, and a heap of 100 MB, until at
\* some call it has been reloaded and holds 160 MB, and a heap of 85 MB,
\* from then on.
LongEnv ==
    [ name |-> "long", max_ingest |-> MaxLongIngest, ordered |-> TRUE,
      inputs |-> << Input(Reading(100, 100), 0), Input(Reading(160, 85), 1) >>,
      skews |-> {0}, period |-> SamplePeriodSeconds, hold |-> 0,
      resets |-> MaxResets, methods |-> {} ]

\* A short session in which every call is free in its reload count.
ReloadEnv ==
    [ name |-> "reload", max_ingest |-> MaxReloadIngest, ordered |-> FALSE,
      inputs |-> [i \in 1..(MaxReload + 1) |-> Input(Reading(100, 100), i - 1)],
      skews |-> {0}, period |-> SamplePeriodSeconds, hold |-> 0,
      resets |-> MaxResets, methods |-> {} ]

\* A short session in which every call is free in its js heap, and the clock
\* may advance between the two reads of a call.
GcEnv ==
    [ name |-> "gc", max_ingest |-> MaxGcIngest, ordered |-> FALSE,
      inputs |-> << Input(Reading(100, 100), 0), Input(Reading(100, 95), 0),
                    Input(Reading(100, 90), 0), Input(Reading(100, 85), 0),
                    Input(NoNumbers, 0) >>,
      skews |-> 0..MaxSkew, period |-> SamplePeriodSeconds, hold |-> 0,
      resets |-> MaxResets, methods |-> {} ]

Environments == {LongEnv, ReloadEnv, GcEnv}

\* last is the index of the input of the session's last call, 0 before it;
\* cleared tells whether the reset that began the session found an engine
\* holding samples, a reload boundary, a baseline and a GC time.
NewSession(profile, resets, cleared) ==
    [ profile |-> profile, calls |-> 0, resets |-> resets, clock |-> 0,
      last |-> 0, cleared |-> cleared ]

Init ==
    /\ \E minutes \in 1..MaxWindowMinutes : det = NewDetector(DefaultConfig(minutes))
    /\ fresh = det
    /\ ingested = <<>>
    /\ returned = None
    /\ op = "construct"
    /\ \E profile \in Environments : env = NewSession(profile, 0, FALSE)
    /\ threads = <<>>
    /\ monitor = None

\* The constructor returned an engine (a constructor that raises leaves no
\* engine to call).
Constructed == ~(op = "construct" /\ returned # None)

\* One call det.add_memory_sample(metrics, reload_count).  The clock is read
\* for the sample's timestamp; it is read again, skew seconds later, when a
\* GC event is recorded; the analysis reads it after that.  The call returns
\* the list of signals or raises what the analysis raised, the sample stored
\* either way.
Ingest ==
    \E i \in 1..Len(env.profile.inputs), skew \in env.profile.skews :
        LET metrics == env.profile.inputs[i].metrics
            reload_count == env.profile.inputs[i].reload_count
            timestamp == env.clock + env.profile.period
            gc_clock == timestamp + skew
            after == add_memory_sample(det, metrics, reload_count, timestamp, gc_clock)
            gc_read == after.last_gc_time = Some(gc_clock)
            clock == IF gc_read THEN gc_clock ELSE timestamp
        IN  /\ Constructed
            /\ env.calls < env.profile.max_ingest
            /\ env.profile.ordered => i >= env.last
            /\ env.calls < env.profile.hold => i = 1
            /\ skew > 0 => gc_read
            /\ det' = after
            /\ fresh' = add_memory_sample(fresh, metrics, reload_count,
                                          timestamp, gc_clock)
            /\ ingested' = Append(ingested,
                                  MakeSample(metrics, reload_count, timestamp))
            /\ returned' = leak_signals(after, clock)
            /\ op' = "ingest"
            /\ env' = [env EXCEPT !.calls = @ + 1, !.clock = clock, !.last = i]
            /\ UNCHANGED <<threads, monitor>>

\* One call det.reset_detector().  The reset engine holds no instant, so the
\* clock of the new session is counted from zero again.
Reset ==
    /\ Constructed
    /\ env.resets < env.profile.resets
    /\ det' = reset_detector(det)
    /\ fresh' = NewDetector(det.config)
    /\ ingested' = <<>>
    /\ returned' = None
    /\ op' = "reset"
    /\ env' = NewSession(env.profile, env.resets + 1,
                          /\ det.memory_history # <<>>
                          /\ det.reload_boundaries # <<>>
                          /\ det.baseline_established
                          /\ det.last_gc_time # None)
    /\ UNCHANGED <<threads, monitor>>

Next == Ingest \/ Reset

Spec == Init /\ [][Next]_vars

-----------------------------------------------------------------------------
(* The analyzers one by one.  A second specification in which the caller   *)
(* also reads the statistics and calls the analyzers directly, each on the *)
(* engine as the calls of add_memory_sample so far have left it, and in    *)
(* which the configuration varies.                                         *)

\* calls per session where every call may record a reload boundary
MaxReloadLeakIngest == 7

\* calls per session where the chrome memory may jump
MaxSpikeIngest == 11

\* calls per session of a slow sampling loop, of which the first
\* SlowHold present the same input
MaxSlowIngest == 61
SlowHold == 55
\* seconds between two calls of a slow sampling loop
SlowPeriodSeconds == 300
\* calls per session kept up for more than NoGcEverSamples calls, of which
\* the first NeverGcHold present the same input
MaxNeverGcIngest == 302
NeverGcHold == 298
\* sampling_window_minutes of an engine that holds more than NoGcEverSamples
\* samples
WideWindowMinutes == 6

\* calls for which a session that goes on to lack numbers presents them
BlankHold == 53

\* calls per session of a caller that reads the statistics
MaxStatsIngest == 12

\* calls per session of a sampling loop that outruns the history
MaxFastIngest == 63

\* calls for which a session that goes on to grow presents the same input:
\* until its last LadderHold - MaxSlowIngest calls (a jump), or for longer
\* than the medium window reaches back (a ramp)
LadderHold == 57
RampHold == 54

\* calls of a session of a nearly empty page
MaxSmallIngest == 6

\* calls of a session under a clock that stands still
MaxStillIngest == 4

\* a loop that samples once a minute: its calls, of which the first LineHold
\* present the same input, and the seconds between two calls
MaxLineIngest == 61
LineHold == 55
LinePeriodSeconds == 60

\* calls of a session of a caller that invokes the baseline estimator
MaxBaselineIngest == 12

\* sampling_window_minutes of a history of 300 samples
NarrowWindowMinutes == 5

\* d without the key
Without(d, key) == [k \in DOMAIN d \ {key} |-> d[k]]

\* The default configuration with another cumulative_leak_per_reload_mb.
WithReloadLeakThreshold(config, mb) ==
    [config EXCEPT
        !.detection_thresholds.per_reload_analysis.cumulative_leak_per_reload_mb
            = Mb(mb)]

\* The default configuration without one threshold of one category.
WithoutThreshold(config, category, key) ==
    [config EXCEPT !.detection_thresholds[category] = Without(@, key)]

\* Configurations that lack a threshold the analysis reads, and one that
\* lacks the thresholds altogether.
IncompleteConfigs ==
    { WithoutThreshold(DefaultConfig(1), "chrome_process_memory",
                       "growth_rate_threshold_mb_per_min"),
      WithoutThreshold(DefaultConfig(1), "js_heap_memory",
                       "no_gc_duration_threshold_seconds"),
      WithoutThreshold(DefaultConfig(1), "per_reload_analysis",
                       "cumulative_leak_per_reload_mb"),
      Without(DefaultConfig(1), "detection_thresholds") }

\* __init__, the keys it reads that the configuration lacks
constructor_key_errors(config) ==
    MissingKeys(config, << "sampling_window_minutes", "detection_thresholds",
                           "trend_analysis" >>)

\* MemoryLeakDetector(config): the engine, or the KeyError __init__ raised
\* (of the engine that was being constructed only the configuration is
\* kept then).
construct(config) ==
    LET missing == constructor_key_errors(config)
    IN  IF missing = <<>>
        THEN [engine |-> NewDetector(config), raised |-> None]
        ELSE [engine |-> [config |-> config], raised |-> KeyError(Head(missing))]

\* The caller calls method m besides add_memory_sample and reset_detector.
Calls(m) == Constructed /\ m \in env.profile.methods

\* A session of reloads: the page is reloaded before every call that moves
\* to a later phase, and holds the chrome memory of the phase.
ReloadLeakEnv ==
    [ name |-> "reload leak", max_ingest |-> MaxReloadLeakIngest, ordered |-> TRUE,
      inputs |-> << Input(Reading(100, 100), 0), Input(Reading(300, 100), 1),
                    Input(Reading(200, 100), 2), Input(Reading(215, 100), 3),
                    Input(Reading(230, 100), 4), Input(Reading(245, 100), 5),
                    Input(Reading(260, 100), 6) >>,
      skews |-> {0}, period |-> SamplePeriodSeconds, hold |-> 0,
      resets |-> 0,
      methods |-> {"_analyze_per_reload_patterns", "get_memory_statistics"},
      configs |-> { DefaultConfig(1),
                    WithReloadLeakThreshold(DefaultConfig(1), 20) } ]

\* A session whose chrome memory starts at 1000 MB or at 100 MB and may
\* jump to 145, 150 or 160 MB.
SpikeEnv ==
    [ name |-> "spike", max_ingest |-> MaxSpikeIngest, ordered |-> TRUE,
      inputs |-> << Input(Reading(1000, 100), 0), Input(Reading(100, 100), 0),
                    Input(Reading(145, 100), 0), Input(Reading(150, 100), 0),
                    Input(Reading(160, 100), 0) >>,
      skews |-> {0}, period |-> SamplePeriodSeconds, hold |-> 0,
      resets |-> 0, methods |-> {"_detect_memory_spikes"},
      configs |-> {DefaultConfig(1)} ]

\* A slow sampling loop: a sample every five minutes, so that the short
\* window holds 2 samples, the medium window 7 and the long window 13.  The
\* page holds 100 MB and a heap of 100 MB; then the heap falls to 85 MB, the
\* page is reloaded, to 120 MB, and again, to 140 MB, and jumps to 600 MB.
SlowEnv ==
    [ name |-> "slow", max_ingest |-> MaxSlowIngest, ordered |-> TRUE,
      inputs |-> << Input(Reading(100, 100), 0), Input(Reading(100, 85), 0),
                    Input(Reading(120, 85), 1), Input(Reading(140, 85), 2),
                    Input(Reading(600, 85), 2) >>,
      skews |-> {0}, period |-> SlowPeriodSeconds, hold |-> SlowHold,
      resets |-> 0, methods |-> {},
      configs |-> {DefaultConfig(1)} \cup IncompleteConfigs ]

\* The same loop kept up for more than 300 samples, into a history that
\* holds them all; the heap may fall to 85 MB near the end.
NeverGcEnv ==
    [ name |-> "never gc", max_ingest |-> MaxNeverGcIngest, ordered |-> TRUE,
      inputs |-> << Input(Reading(100, 100), 0), Input(Reading(100, 85), 0) >>,
      skews |-> {0}, period |-> SlowPeriodSeconds, hold |-> NeverGcHold,
      resets |-> 0, methods |-> {},
      configs |-> {DefaultConfig(WideWindowMinutes)} ]

\* The same loop kept up for more than 300 samples, into a history that
\* holds 300 of them.
CappedEnv ==
    [ name |-> "capped", max_ingest |-> MaxNeverGcIngest, ordered |-> TRUE,
      inputs |-> << Input(Reading(100, 100), 0), Input(Reading(100, 85), 0) >>,
      skews |-> {0}, period |-> SlowPeriodSeconds, hold |-> NeverGcHold,
      resets |-> 0, methods |-> {},
      configs |-> {DefaultConfig(NarrowWindowMinutes)} ]

\* The slow loop with a sampler that loses its numbers: first the system
\* memory, then the js heap, then the chrome memory, then all three.
BlankEnv ==
    [ name |-> "blank", max_ingest |-> MaxSlowIngest, ordered |-> TRUE,
      inputs |-> << Input(Reading(100, 100), 0),
                    Input(Without(Reading(100, 100), "system_memory_percent"), 0),
                    Input(Without(Reading(100, 100), "js_heap_mb"), 0),
                    Input(Without(Reading(100, 100), "chrome_memory_mb"), 0),
                    Input(NoNumbers, 0) >>,
      skews |-> {0}, period |-> SlowPeriodSeconds, hold |-> BlankHold,
      resets |-> 0, methods |-> {},
      configs |-> {DefaultConfig(1)} ]

\* The slow loop with a sampler that has no numbers until, near the end, it
\* reports 100 MB.
BlankFirstEnv ==
    [ name |-> "blank first", max_ingest |-> MaxSlowIngest, ordered |-> TRUE,
      inputs |-> << Input(NoNumbers, 0), Input(Reading(100, 100), 0) >>,
      skews |-> {0}, period |-> SlowPeriodSeconds, hold |-> SlowHold,
      resets |-> 0, methods |-> {},
      configs |-> {DefaultConfig(1)} ]

\* A short session, reset and begun again, of a caller that reads the
\* statistics: the page holds 100 MB, and a heap of 100 MB, and may go on
\* to 163 MB, and a heap of 85 MB, after a reload.
StatsEnv ==
    [ name |-> "stats", max_ingest |-> MaxStatsIngest, ordered |-> TRUE,
      inputs |-> << Input(Reading(100, 100), 0), Input(Reading(163, 85), 1) >>,
      skews |-> {0}, period |-> SamplePeriodSeconds, hold |-> 0,
      resets |-> MaxResets, methods |-> {"get_memory_statistics"},
      configs |-> {DefaultConfig(1)} ]

\* A sample every second, for longer than the history holds: all three
\* windows hold the whole history.  The page holds 100 MB until, at some
\* call, it has been reloaded and holds 163 MB.
FastEnv ==
    [ name |-> "fast", max_ingest |-> MaxFastIngest, ordered |-> TRUE,
      inputs |-> << Input(Reading(100, 100), 0), Input(Reading(163, 85), 1) >>,
      skews |-> {0}, period |-> SamplePeriodSeconds, hold |-> 0,
      resets |-> 0, methods |-> {"get_memory_statistics"},
      configs |-> {DefaultConfig(1)} ]

\* The slow loop with a page of 100 MB that jumps: to 300 MB (200 percent),
\* 400 MB (10 MB a minute over the medium window), 600 MB (500 MB more),
\* 700 MB (10 MB a minute over the long window) or 800 MB.
LadderEnv ==
    [ name |-> "ladder", max_ingest |-> MaxSlowIngest, ordered |-> TRUE,
      inputs |-> << Input(Reading(100, 100), 0), Input(Reading(300, 100), 0),
                    Input(Reading(400, 100), 0), Input(Reading(600, 100), 0),
                    Input(Reading(700, 100), 0), Input(Reading(800, 100), 0) >>,
      skews |-> {0}, period |-> SlowPeriodSeconds, hold |-> LadderHold,
      resets |-> 0, methods |-> {},
      configs |-> {DefaultConfig(1)} ]

\* The slow loop with a page that grows from 100 MB, a megabyte at a time.
RampEnv ==
    [ name |-> "ramp", max_ingest |-> MaxSlowIngest, ordered |-> TRUE,
      inputs |-> << Input(Reading(100, 100), 0), Input(Reading(101, 100), 0),
                    Input(Reading(102, 100), 0), Input(Reading(103, 100), 0) >>,
      skews |-> {0}, period |-> SlowPeriodSeconds, hold |-> RampHold,
      resets |-> 0, methods |-> {"_calculate_trends"},
      configs |-> {DefaultConfig(1)} ]

\* The slow loop with a page that shrinks from 103 MB, a megabyte at a time.
FallEnv ==
    [ name |-> "fall", max_ingest |-> MaxSlowIngest, ordered |-> TRUE,
      inputs |-> << Input(Reading(103, 100), 0), Input(Reading(102, 100), 0),
                    Input(Reading(101, 100), 0), Input(Reading(100, 100), 0) >>,
      skews |-> {0}, period |-> SlowPeriodSeconds, hold |-> RampHold,
      resets |-> 0, methods |-> {},
      configs |-> {DefaultConfig(1)} ]

\* a reading of the chrome memory in the unit of the model, the smallest
\* fraction of a megabyte that it tells apart
SmallReading(units) ==
    [ chrome_memory_mb |-> units, js_heap_mb |-> Mb(1),
      system_memory_percent |-> 50 ]

\* A few calls about a nearly empty page: its memory is reported as a
\* negative number, as zero, as the smallest fraction of a megabyte, as one
\* megabyte less that fraction, as one megabyte, and as four megabytes.
SmallEnv ==
    [ name |-> "small", max_ingest |-> MaxSmallIngest, ordered |-> TRUE,
      inputs |-> << Input(SmallReading(-Mb(1)), 0), Input(SmallReading(0), 0),
                    Input(SmallReading(1), 0),
                    Input(SmallReading(Mb(1) - 1), 0),
                    Input(SmallReading(Mb(1)), 0),
                    Input(SmallReading(Mb(4)), 0) >>,
      skews |-> {0}, period |-> SamplePeriodSeconds, hold |-> 0,
      resets |-> 0, methods |-> {"_calculate_trends"},
      configs |-> {DefaultConfig(1)} ]

\* A few calls within one reading of the clock: two calls have the same
\* timestamp unless the clock was seen to advance in between, while a GC
\* event was recorded.
StillEnv ==
    [ name |-> "still", max_ingest |-> MaxStillIngest, ordered |-> FALSE,
      inputs |-> << Input(Reading(100, 100), 0), Input(Reading(100, 85), 0),
                    Input(Reading(160, 100), 0), Input(Reading(160, 85), 0) >>,
      skews |-> 0..MaxSkew, period |-> 0, hold |-> 0,
      resets |-> 0,
      methods |-> {"_calculate_memory_trend", "_linear_regression"},
      configs |-> {DefaultConfig(1)} ]

\* The configuration with the short window as its only trend window.
WithShortWindowOnly(config) ==
    [config EXCEPT !.trend_analysis = <<config.trend_analysis[1]>>]

\* The configuration with chrome thresholds that a page of a few megabytes
\* cannot exceed.
WithChromeThresholdsOutOfReach(config) ==
    [config EXCEPT
        !.detection_thresholds.chrome_process_memory =
            [ growth_rate_threshold_mb_per_min |-> Mb(1000),
              total_growth_threshold_mb |-> Mb(1000),
              percentage_growth_threshold |-> 1000 ]]

\* A loop that samples once a minute a page of 1 MB that comes to grow, by
\* whole megabytes, up to 6 MB.
LineEnv ==
    [ name |-> "line", max_ingest |-> MaxLineIngest, ordered |-> TRUE,
      inputs |-> [i \in 1..6 |-> Input(Reading(i, 100), 0)],
      skews |-> {0}, period |-> LinePeriodSeconds, hold |-> LineHold,
      resets |-> 0, methods |-> {"_calculate_trends"},
      configs |-> { WithShortWindowOnly(DefaultConfig(1)),
                    WithChromeThresholdsOutOfReach(
                        WithShortWindowOnly(DefaultConfig(1))) } ]

\* A short session of a caller that also invokes the baseline estimator:
\* the page holds 100 MB, and a heap of 100 MB, and may go on to 163 MB, and
\* a heap of 85 MB.
BaselineEnv ==
    [ name |-> "baseline", max_ingest |-> MaxBaselineIngest, ordered |-> TRUE,
      inputs |-> << Input(Reading(100, 100), 0), Input(Reading(163, 85), 0) >>,
      skews |-> {0}, period |-> SamplePeriodSeconds, hold |-> 0,
      resets |-> 0, methods |-> {"_establish_baseline"},
      configs |-> {DefaultConfig(1)} ]

AnalysisEnvironments ==
    { ReloadLeakEnv, SpikeEnv, SlowEnv, NeverGcEnv, BlankEnv, BlankFirstEnv,
      StatsEnv, FastEnv, LadderEnv, RampEnv, FallEnv, SmallEnv, StillEnv,
      LineEnv, BaselineEnv, CappedEnv }

AnalysisInit ==
    \E profile \in AnalysisEnvironments :
        \E config \in profile.configs :
            /\ det = construct(config).engine
            /\ fresh = det
            /\ ingested = <<>>
            /\ returned = construct(config).raised
            /\ op = "construct"
            /\ env = NewSession(profile, 0, FALSE)
            /\ threads = <<>>
            /\ monitor = None

\* One call det._analyze_per_reload_patterns()
AnalyzePerReload ==
    /\ Calls("_analyze_per_reload_patterns")
    /\ returned' = IF reload_key_errors(det) # <<>>
                   THEN KeyError(Head(reload_key_errors(det)))
                   ELSE analyze_per_reload_patterns(det)
    /\ op' = "_analyze_per_reload_patterns"
    /\ UNCHANGED <<det, fresh, ingested, env, threads, monitor>>

\* One call det._detect_memory_spikes()
DetectSpikes ==
    /\ Calls("_detect_memory_spikes")
    /\ returned' = detect_memory_spikes(det)
    /\ op' = "_detect_memory_spikes"
    /\ UNCHANGED <<det, fresh, ingested, env, threads, monitor>>

\* One call det.get_memory_statistics()
GetStatistics ==
    /\ Calls("get_memory_statistics")
    /\ returned' = get_memory_statistics(det)
    /\ op' = "get_memory_statistics"
    /\ UNCHANGED <<det, fresh, ingested, env, threads, monitor>>

\* One call det._calculate_trends(); the mapping from window name to trend
\* is the sequence of its items.
CalculateTrends ==
    /\ Calls("_calculate_trends")
    /\ returned' = calculate_trends(det, env.clock)
    /\ op' = "_calculate_trends"
    /\ UNCHANGED <<det, fresh, ingested, env, threads, monitor>>

\* seconds from the first of the samples to each of them
TimesOf(samples) ==
    [i \in 1..Len(samples) |-> samples[i].timestamp - samples[1].timestamp]

\* One call det._calculate_memory_trend(list(det.memory_history))
CalculateMemoryTrend ==
    /\ Calls("_calculate_memory_trend")
    /\ returned' = calculate_memory_trend(det.memory_history)
    /\ op' = "_calculate_memory_trend"
    /\ UNCHANGED <<det, fresh, ingested, env, threads, monitor>>

\* One call det._linear_regression(times, chrome_values), on the times and
\* the values of the history as _calculate_memory_trend extracts them.
LinearRegression ==
    /\ Calls("_linear_regression")
    /\ returned' = linear_regression(TimesOf(det.memory_history),
                                     Field(det.memory_history, "chrome_memory"))
    /\ op' = "_linear_regression"
    /\ UNCHANGED <<det, fresh, ingested, env, threads, monitor>>

\* One call det._establish_baseline()
EstablishBaseline ==
    /\ Calls("_establish_baseline")
    /\ det' = establish_baseline(det)
    /\ returned' = None
    /\ op' = "_establish_baseline"
    /\ UNCHANGED <<fresh, ingested, env, threads, monitor>>

AnalysisNext ==
    \/ Ingest
    \/ Reset
    \/ AnalyzePerReload
    \/ DetectSpikes
    \/ GetStatistics
    \/ CalculateTrends
    \/ CalculateMemoryTrend
    \/ LinearRegression
    \/ EstablishBaseline

AnalysisSpec == AnalysisInit /\ [][AnalysisNext]_vars

-----------------------------------------------------------------------------
(* Callers that are not serialized.  A third specification in which        *)
(* several threads call add_memory_sample on one engine.  A thread runs    *)
(* the method statement by statement (the interpreter switches threads     *)
(* between bytecodes, so between any two statements); a step is one access *)
(* of the shared engine, and what a thread has read it keeps in locals.    *)

\* the threads
NumThreads == 2
\* calls of add_memory_sample by all threads together, of which the first
\* ConcurrentHold present the same input and are made one after the other
\* (a second sampling loop is started on a running session)
MaxConcurrentIngest == 11
ConcurrentHold == 9

Threads == 1..NumThreads

Idle == [pc |-> "idle", sample |-> None, recent_samples |-> <<>>]

\* The page holds 100 MB, and a heap of 100 MB, and may go on to 163 MB.
ConcurrentEnv ==
    [ name |-> "concurrent", max_ingest |-> MaxConcurrentIngest,
      ordered |-> TRUE,
      inputs |-> << Input(Reading(100, 100), 0), Input(Reading(163, 100), 0) >>,
      skews |-> {0}, period |-> SamplePeriodSeconds, hold |-> ConcurrentHold,
      resets |-> 0, methods |-> {} ]

\* written lists the slices of the history from whose mean the chrome
\* baseline was written, in the order of the writes; overlapped tells
\* whether a call has begun while another was in progress.
ConcurrentInit ==
    /\ det = NewDetector(DefaultConfig(1))
    /\ fresh = det
    /\ ingested = <<>>
    /\ returned = None
    /\ op = "construct"
    /\ env = NewSession(ConcurrentEnv, 0, FALSE)
                @@ [written |-> <<>>, overlapped |-> FALSE]
    /\ threads = [t \in Threads |-> Idle]
    /\ monitor = None

\* A thread calls add_memory_sample: it reads the clock and builds its
\* sample (lines 68-82).  Idle threads are alike, so the call is made by
\* the first of them.
Enter ==
    \E t \in Threads, i \in 1..Len(env.profile.inputs) :
        LET timestamp == env.clock + env.profile.period
        IN  /\ threads[t].pc = "idle"
            /\ \A u \in Threads : u < t => threads[u].pc # "idle"
            /\ env.calls < env.profile.max_ingest
            /\ i >= env.last
            /\ env.calls < env.profile.hold
                    => i = 1 /\ \A u \in Threads : threads[u].pc = "idle"
            /\ threads' = [threads EXCEPT ![t] =
                    [ pc |-> "append",
                      sample |-> MakeSample(env.profile.inputs[i].metrics,
                                            env.profile.inputs[i].reload_count,
                                            timestamp),
                      recent_samples |-> <<>> ]]
            /\ env' = [env EXCEPT
                    !.calls = @ + 1, !.clock = timestamp, !.last = i,
                    !.overlapped =
                        @ \/ \E u \in Threads : threads[u].pc # "idle"]
            /\ op' = "enter"
            /\ UNCHANGED <<det, fresh, ingested, returned, monitor>>

\* self.memory_history.append(sample)
AppendSample ==
    \E t \in Threads :
        /\ threads[t].pc = "append"
        /\ det' = [det EXCEPT !.memory_history =
                    DequeAppend(@, det.max_samples, threads[t].sample)]
        /\ ingested' = Append(ingested, threads[t].sample)
        /\ threads' = [threads EXCEPT ![t].pc = "track"]
        /\ op' = "append"
        /\ UNCHANGED <<fresh, returned, env, monitor>>

\* "Track reload boundaries for per-reload analysis"
TrackBoundary ==
    \E t \in Threads :
        /\ threads[t].pc = "track"
        /\ det' = TrackReloadBoundary(det, threads[t].sample)
        /\ threads' = [threads EXCEPT ![t].pc = "check"]
        /\ op' = "track"
        /\ UNCHANGED <<fresh, ingested, returned, env, monitor>>

\* "Establish baseline if not set": the test
CheckBaseline ==
    \E t \in Threads :
        /\ threads[t].pc = "check"
        /\ threads' = [threads EXCEPT ![t].pc =
                        IF baseline_due(det) THEN "establish" ELSE "detect_gc"]
        /\ op' = "check"
        /\ UNCHANGED <<det, fresh, ingested, returned, env, monitor>>

\* _establish_baseline: the test of the length and
\* recent_samples = list(self.memory_history)[-10:]
ReadRecentSamples ==
    \E t \in Threads :
        /\ threads[t].pc = "establish"
        /\ threads' = [threads EXCEPT ![t] =
                IF Len(det.memory_history) < BaselineSamples
                THEN [@ EXCEPT !.pc = "detect_gc"]
                ELSE [@ EXCEPT !.pc = "write_chrome",
                               !.recent_samples =
                                   LastN(det.memory_history, BaselineSamples)]]
        /\ op' = "read_recent_samples"
        /\ UNCHANGED <<det, fresh, ingested, returned, env, monitor>>

\* self.baseline_chrome_memory = statistics.mean(...)
WriteBaselineChrome ==
    \E t \in Threads :
        /\ threads[t].pc = "write_chrome"
        /\ det' = [det EXCEPT !.baseline_chrome_memory =
                    Some(Mean(Field(threads[t].recent_samples, "chrome_memory")))]
        /\ env' = [env EXCEPT
                    !.written = Append(@, threads[t].recent_samples)]
        /\ threads' = [threads EXCEPT ![t].pc = "write_heap"]
        /\ op' = "write_chrome"
        /\ UNCHANGED <<fresh, ingested, returned, monitor>>

\* self.baseline_js_heap = statistics.mean(...)
WriteBaselineHeap ==
    \E t \in Threads :
        /\ threads[t].pc = "write_heap"
        /\ det' = [det EXCEPT !.baseline_js_heap =
                    Some(Mean(Field(threads[t].recent_samples, "js_heap")))]
        /\ threads' = [threads EXCEPT ![t].pc = "write_flag"]
        /\ op' = "write_heap"
        /\ UNCHANGED <<fresh, ingested, returned, env, monitor>>

\* self.baseline_established = True
WriteBaselineFlag ==
    \E t \in Threads :
        /\ threads[t].pc = "write_flag"
        /\ det' = [det EXCEPT !.baseline_established = TRUE]
        /\ threads' = [threads EXCEPT ![t].pc = "detect_gc"]
        /\ op' = "write_flag"
        /\ UNCHANGED <<fresh, ingested, returned, env, monitor>>

\* self._detect_gc_events(js_heap)
DetectGc ==
    \E t \in Threads :
        /\ threads[t].pc = "detect_gc"
        /\ det' = detect_gc_events(det, threads[t].sample.js_heap, env.clock)
        /\ threads' = [threads EXCEPT ![t].pc = "analyse"]
        /\ op' = "detect_gc"
        /\ UNCHANGED <<fresh, ingested, returned, env, monitor>>

\* "Analyze for leak patterns", and the return
Return ==
    \E t \in Threads :
        /\ threads[t].pc = "analyse"
        /\ returned' = leak_signals(det, env.clock)
        /\ threads' = [threads EXCEPT ![t] = Idle]
        /\ op' = "ingest"
        /\ UNCHANGED <<det, fresh, ingested, env, monitor>>

ConcurrentNext ==
    \/ Enter
    \/ AppendSample
    \/ TrackBoundary
    \/ CheckBaseline
    \/ ReadRecentSamples
    \/ WriteBaselineChrome
    \/ WriteBaselineHeap
    \/ WriteBaselineFlag
    \/ DetectGc
    \/ Return

ConcurrentSpec == ConcurrentInit /\ [][ConcurrentNext]_vars

-----------------------------------------------------------------------------
(* The website monitor (src/src/monitors/website_monitor.py).  A fourth    *)
(* specification, of one run of WebsiteMonitor.start_monitoring from the   *)
(* moment the browser and its page are open.  Every awaited call either    *)
(* returns, raises an Exception, or raises what "except Exception" does    *)
(* not catch (a cancellation, a keyboard interrupt); which of the three is *)
(* the environment's choice.                                               *)

\* reloads of a monitoring session
MaxReloads == 12

\* What an awaited call may raise: nothing, an Exception, or a
\* BaseException that is not an Exception.
Outcomes == {"returns", "Exception", "BaseException"}

\* WebsiteMonitor.__init__ and the start of start_monitoring; loads counts
\* the calls of page.goto, failed tells whether the body of a reload has
\* raised, closes counts the calls of browser.close, and raised is what
\* start_monitoring is raising.
NewMonitor(screenshots_enabled) ==
    [ pc |-> "while", reload_count |-> 0, crash_detected |-> FALSE,
      screenshots_enabled |-> screenshots_enabled,
      browser |-> "open", loads |-> 0, failed |-> FALSE, closes |-> 0,
      raised |-> None ]

MonitorInit ==
    /\ det = None
    /\ fresh = None
    /\ ingested = <<>>
    /\ returned = None
    /\ op = "construct"
    /\ env = None
    /\ threads = <<>>
    /\ \E screenshots_enabled \in BOOLEAN :
            monitor = NewMonitor(screenshots_enabled)

\* Where the body of a reload goes on an outcome that is not a return: to
\* the except clause on an Exception, and through the finally clause out of
\* start_monitoring on anything else.
Raise(m, outcome) ==
    IF outcome = "Exception"
    THEN [m EXCEPT !.pc = "capture_crash_data", !.failed = TRUE]
    ELSE [m EXCEPT !.pc = "close", !.failed = TRUE, !.raised = Some(outcome)]

\* "while not self.crash_detected:" and "self.reload_count += 1"
BeginReload ==
    /\ monitor # None
    /\ monitor.pc = "while"
    /\ monitor.reload_count < MaxReloads
    /\ monitor' = IF monitor.crash_detected
                  THEN [monitor EXCEPT !.pc = "close"]
                  ELSE [monitor EXCEPT !.pc = "goto", !.reload_count = @ + 1]
    /\ op' = "while"
    /\ UNCHANGED <<det, fresh, ingested, returned, env, threads>>

\* await page.goto(...)
Goto ==
    \E outcome \in Outcomes :
        /\ monitor # None
        /\ monitor.pc = "goto"
        /\ monitor' =
            LET m == [monitor EXCEPT !.loads = @ + 1]
            IN  IF outcome = "returns"
                THEN [m EXCEPT !.pc = IF m.screenshots_enabled
                                      THEN "screenshot"
                                      ELSE "capture_performance_metrics"]
                ELSE Raise(m, outcome)
        /\ op' = "goto"
        /\ UNCHANGED <<det, fresh, ingested, returned, env, threads>>

\* await page.screenshot(...)
Screenshot ==
    \E outcome \in Outcomes :
        /\ monitor # None
        /\ monitor.pc = "screenshot"
        /\ monitor' = IF outcome = "returns"
                      THEN [monitor EXCEPT !.pc = "capture_performance_metrics"]
                      ELSE Raise(monitor, outcome)
        /\ op' = "screenshot"
        /\ UNCHANGED <<det, fresh, ingested, returned, env, threads>>

\* await self.capture_performance_metrics(page, load_time), which catches
\* every Exception of its own
CapturePerformanceMetrics ==
    \E outcome \in Outcomes :
        /\ monitor # None
        /\ monitor.pc = "capture_performance_metrics"
        /\ monitor' = IF outcome \in {"returns", "Exception"}
                      THEN [monitor EXCEPT !.pc = "sleep"]
                      ELSE Raise(monitor, outcome)
        /\ op' = "capture_performance_metrics"
        /\ UNCHANGED <<det, fresh, ingested, returned, env, threads>>

\* Mutant: what capture_crash_data raises leaves start_monitoring at once.
CaptureCrashDataUnprotected ==
    \E outcome \in Outcomes :
        /\ monitor # None
        /\ monitor.pc = "capture_crash_data"
        /\ monitor' = IF outcome = "returns"
                      THEN [monitor EXCEPT !.pc = "close",
                                           !.crash_detected = TRUE]
                      ELSE [monitor EXCEPT !.pc = "done",
                                           !.raised = Some(outcome)]
        /\ op' = "capture_crash_data"
        /\ UNCHANGED <<det, fresh, ingested, returned, env, threads>>

\* The except clause: await self.capture_crash_data(...), then
\* self.crash_detected = True and break; what capture_crash_data raises
\* (from get_system_metrics or from writing crash_data.json) passes
\* through the finally clause.
CaptureCrashData ==
    \E outcome \in Outcomes :
        /\ monitor # None
        /\ monitor.pc = "capture_crash_data"
        /\ monitor' = IF outcome = "returns"
                      THEN [monitor EXCEPT !.pc = "close",
                                           !.crash_detected = TRUE]
                      ELSE [monitor EXCEPT !.pc = "close",
                                           !.raised = Some(outcome)]
        /\ op' = "capture_crash_data"
        /\ UNCHANGED <<det, fresh, ingested, returned, env, threads>>

\* await asyncio.sleep(self.reload_interval)
Sleep ==
    \E outcome \in {"returns", "BaseException"} :
        /\ monitor # None
        /\ monitor.pc = "sleep"
        /\ monitor' = IF outcome = "returns"
                      THEN [monitor EXCEPT !.pc = "while"]
                      ELSE [monitor EXCEPT !.pc = "close",
                                           !.raised = Some(outcome)]
        /\ op' = "sleep"
        /\ UNCHANGED <<det, fresh, ingested, returned, env, threads>>

\* finally: await browser.close()
CloseBrowser ==
    /\ monitor # None
    /\ monitor.pc = "close"
    /\ monitor' = [monitor EXCEPT !.pc = "done", !.browser = "closed",
                                  !.closes = @ + 1]
    /\ op' = "close"
    /\ UNCHANGED <<det, fresh, ingested, returned, env, threads>>

MonitorNext ==
    \/ BeginReload
    \/ Goto
    \/ Screenshot
    \/ CapturePerformanceMetrics
    \/ CaptureCrashData
    \/ Sleep
    \/ CloseBrowser

MonitorSpec == MonitorInit /\ [][MonitorNext]_vars

-----------------------------------------------------------------------------
(* Properties.                                                             *)

Capacity == det.config.sampling_window_minutes * 60

LastSample == ingested[Len(ingested)]

\* C1: the history never holds more than sampling_window_minutes * 60
\* samples, and it is always the most recent part of what was ingested, in
\* the order of ingestion: a sample ingested into a full history evicts the
\* oldest one.
HistoryIsBoundedRing ==
    /\ Len(det.memory_history) <= Capacity
    /\ det.memory_history = LastN(ingested, Capacity)

\* C1 witness: a sample was ingested into a full history.
HistoryHasEvicted ==
    /\ op = "ingest"
    /\ Len(ingested) > Capacity
    /\ Len(det.memory_history) = Capacity
    /\ det.memory_history[1] = ingested[Len(ingested) - Capacity + 1]

\* C2: once the baseline is established, every step other than a reset
\* leaves both baseline values and the established flag as they are.
BaselineFixedUntilReset ==
    [][ (det.baseline_established /\ op' # "reset")
            => /\ det'.baseline_established
               /\ det'.baseline_chrome_memory = det.baseline_chrome_memory
               /\ det'.baseline_js_heap = det.baseline_js_heap ]_vars

\* C2 witness: the ten samples the baseline was computed from have all been
\* evicted, and the ten latest samples have another mean.
BaselineOutlivesItsSamples ==
    /\ op = "ingest"
    /\ det.baseline_established
    /\ Len(ingested) >= Capacity + BaselineSamples
    /\ det.baseline_chrome_memory
         # Some(Mean(Field(LastN(det.memory_history, BaselineSamples), "chrome_memory")))

\* s is the mean of the first ten values of field f ingested in the session
IsMeanOfFirstTen(b, f) ==
    /\ b # None
    /\ b[1].den > 0
    /\ b[1].num * BaselineSamples
         = b[1].den * Sum(Field(SubSeq(ingested, 1, BaselineSamples), f))

\* C3: the baseline is established exactly from the 10th call of the
\* session on, and its two values are the means of the first ten samples of
\* the session.
BaselineIsMeanOfFirstTen ==
    /\ det.baseline_established <=> Len(ingested) >= BaselineSamples
    /\ det.baseline_established
         => /\ IsMeanOfFirstTen(det.baseline_chrome_memory, "chrome_memory")
            /\ IsMeanOfFirstTen(det.baseline_js_heap, "js_heap")

\* C3 witness: a baseline over ten samples that are not all alike, in a
\* session that went on to an eleventh sample unlike the first.
BaselineOverMixedSamples ==
    /\ det.baseline_established
    /\ Len(ingested) > BaselineSamples
    /\ ingested[1].chrome_memory # ingested[BaselineSamples].chrome_memory
    /\ ingested[1].js_heap # ingested[BaselineSamples].js_heap
    /\ ingested[BaselineSamples + 1].chrome_memory # ingested[1].chrome_memory

\* C4: a call returns the empty list whenever the baseline is not
\* established or the history holds fewer than 60 samples; the first 59
\* calls of a session all do.
EarlyCallsReturnNothing ==
    op = "ingest"
        => /\ (~det.baseline_established \/ Len(det.memory_history) < MinAnalysisSamples)
                => returned = <<>>
           /\ Len(ingested) < MinAnalysisSamples => returned = <<>>

\* C4 witness: the 59th call of a session returned nothing although the
\* analysis of the engine it left finds leak patterns.
GateHidSignals ==
    /\ op = "ingest"
    /\ Len(ingested) = MinAnalysisSamples - 1
    /\ returned = <<>>
    /\ analyze_leak_patterns(det, env.clock) # <<>>

\* The boundary a call records for the sample it ingested.
BoundaryOf(sample) ==
    [ timestamp |-> sample.timestamp, reload_count |-> sample.reload_count,
      chrome_memory |-> sample.chrome_memory, js_heap |-> sample.js_heap ]

\* C5: a call appends one boundary, carrying its own timestamp, reload
\* count, chrome memory and js heap, exactly when the history then holds at
\* least two samples and the reload count exceeds that of the sample
\* ingested just before; otherwise the boundaries stay as they are.
BoundaryExactlyOnIncrease ==
    [][ op' = "ingest"
            => LET new == ingested'[Len(ingested')]
                   increased ==
                       /\ Len(det'.memory_history) >= 2
                       /\ ingested # <<>>
                       /\ new.reload_count > LastSample.reload_count
               IN  det'.reload_boundaries
                     = IF increased
                       THEN Append(det.reload_boundaries, BoundaryOf(new))
                       ELSE det.reload_boundaries ]_vars

\* C5 witness: the session's first sample came with a positive reload count
\* and recorded nothing; a later call, whose count was higher than the one
\* before, recorded the only boundary.
FirstSampleRecordsNoBoundary ==
    /\ op = "ingest"
    /\ Len(ingested) >= 3
    /\ ingested[1].reload_count > 0
    /\ Len(det.reload_boundaries) = 1
    /\ det.reload_boundaries[1] = BoundaryOf(LastSample)

BoundariesNonDecreasing ==
    \A i \in 1..(Len(det.reload_boundaries) - 1) :
        det.reload_boundaries[i].reload_count
            <= det.reload_boundaries[i + 1].reload_count

ReloadCountsNonDecreasing ==
    \A i \in 1..(Len(ingested) - 1) :
        ingested[i].reload_count <= ingested[i + 1].reload_count

\* C6 as stated: the boundaries are non-decreasing in reload_count in every
\* reachable state, whatever the calls were.
BoundariesAlwaysNonDecreasing == BoundariesNonDecreasing

\* C6 as amended: when the reload counts passed since construction or the
\* last reset are non-decreasing, the boundaries are non-decreasing in
\* reload_count.
BoundariesFollowReloadCounts ==
    ReloadCountsNonDecreasing => BoundariesNonDecreasing

\* C6 witness: non-decreasing reload counts that recorded two boundaries.
TwoBoundariesInOrder ==
    /\ op = "ingest"
    /\ ReloadCountsNonDecreasing
    /\ Len(det.reload_boundaries) >= 2

\* C7: a reset leaves an empty history, no boundary, no baseline and no GC
\* time, and leaves the configuration, the thresholds, the trend windows and
\* the capacity of the history as they were.
ResetClearsSessionOnly ==
    [][ op' = "reset"
            => /\ det'.memory_history = <<>>
               /\ det'.reload_boundaries = <<>>
               /\ det'.baseline_chrome_memory = None
               /\ det'.baseline_js_heap = None
               /\ det'.baseline_established = FALSE
               /\ det'.last_gc_time = None
               /\ det'.config = det.config
               /\ det'.thresholds = det.thresholds
               /\ det'.trend_windows = det.trend_windows
               /\ det'.max_samples = det.max_samples ]_vars

\* C7 witness: a reset of an engine that held samples, a reload boundary, a
\* baseline and a GC time.
ResetOfFullEngine ==
    /\ op = "reset"
    /\ env.cleared

\* C8: the baseline of det is that of an engine constructed, with the same
\* configuration, when det was last reset and given the same calls since.
BaselineAsIfFresh ==
    /\ det.baseline_established = fresh.baseline_established
    /\ det.baseline_chrome_memory = fresh.baseline_chrome_memory
    /\ det.baseline_js_heap = fresh.baseline_js_heap

\* C8 witness: an engine that had a baseline was reset and has established
\* a baseline again.
BaselineAfterReset ==
    /\ op = "ingest"
    /\ env.resets > 0
    /\ env.cleared
    /\ det.baseline_established

\* C9: a call sets the last-GC time, to a clock reading of its own, exactly
\* when a sample was ingested before it in the session and its js heap is
\* below nine tenths of that sample's; otherwise the last-GC time stays.
GcExactlyOnHeapDrop ==
    [][ op' = "ingest"
            => LET new == ingested'[Len(ingested')]
                   dropped ==
                       /\ ingested # <<>>
                       /\ 10 * new.js_heap < 9 * LastSample.js_heap
               IN  IF dropped
                   THEN /\ det'.last_gc_time # None
                        /\ det'.last_gc_time # det.last_gc_time
                        /\ det'.last_gc_time[1] >= new.timestamp
                   ELSE det'.last_gc_time = det.last_gc_time ]_vars

\* C9 witness: a heap of 100 fell to 85, which set the last-GC time, and the
\* next call, with a heap of 95, left it as it was.
GcSetThenKept ==
    /\ op = "ingest"
    /\ Len(ingested) = 3
    /\ ingested[1].js_heap = Mb(100)
    /\ ingested[2].js_heap = Mb(85)
    /\ ingested[3].js_heap = Mb(95)
    /\ det.last_gc_time # None
    /\ det.last_gc_time[1] < ingested[3].timestamp

\* The last call recorded a GC event.
LastCallSawGc ==
    /\ op = "ingest"
    /\ Len(ingested) >= 2
    /\ 10 * LastSample.js_heap < 9 * ingested[Len(ingested) - 1].js_heap

\* C10 as stated: the last-GC time a call records is the timestamp of the
\* sample the call stored in the history.
GcTimeIsSampleTimestamp ==
    LastCallSawGc
        => det.last_gc_time
             = Some(det.memory_history[Len(det.memory_history)].timestamp)

\* C10 as amended: the last-GC time a call records is a clock reading the
\* call made itself, not earlier than the timestamp of the sample it stored
\* in the history.
GcTimeIsReadAfterSample ==
    LastCallSawGc
        => /\ det.last_gc_time # None
           /\ det.last_gc_time[1]
                >= det.memory_history[Len(det.memory_history)].timestamp
           /\ det.last_gc_time[1] <= env.clock

\* C10 witness: a call recorded a GC time later than the timestamp of its
\* sample.
GcTimeAfterSampleTimestamp ==
    /\ LastCallSawGc
    /\ det.last_gc_time # None
    /\ det.last_gc_time[1] > det.memory_history[Len(det.memory_history)].timestamp

-----------------------------------------------------------------------------
(* Properties of the analyzers, under AnalysisSpec.                        *)

\* The chrome memory of the reload boundaries, in megabytes, is exactly vs.
BoundariesHold(vs) ==
    /\ Len(det.reload_boundaries) = Len(vs)
    /\ \A i \in 1..Len(vs) : det.reload_boundaries[i].chrome_memory = Mb(vs[i])

ReloadLeakThreshold ==
    det.thresholds.per_reload_analysis.cumulative_leak_per_reload_mb

\* The mean of the differences between consecutive boundaries, among the
\* last five (or all, if fewer), is above the threshold.
MeanReloadGrowthAboveThreshold ==
    LET b == det.reload_boundaries
        k == IF Len(b) < RecentReloads THEN Len(b) ELSE RecentReloads
        recent == [i \in 1..k |-> b[Len(b) - k + i]]
        growth == [i \in 1..(k - 1) |->
                      recent[i + 1].chrome_memory - recent[i].chrome_memory]
    IN  /\ k >= 2
        /\ Sum(growth) > ReloadLeakThreshold * (k - 1)

\* C11: the per-reload analyzer returns "cumulative_reload_leak" exactly
\* when at least two boundaries are recorded and the mean difference of
\* chrome memory between consecutive boundaries among the most recent five
\* is strictly above cumulative_leak_per_reload_mb, and nothing otherwise;
\* boundaries of 200, 215, 230, 245 MB give it with a threshold of 10 and
\* not with a threshold of 20.
ReloadLeakExactlyOnMeanGrowth ==
    op = "_analyze_per_reload_patterns"
        => /\ returned = IF MeanReloadGrowthAboveThreshold
                         THEN <<"cumulative_reload_leak">> ELSE <<>>
           /\ BoundariesHold(<<200, 215, 230, 245>>)
                => /\ ReloadLeakThreshold = Mb(10) => returned # <<>>
                   /\ ReloadLeakThreshold = Mb(20) => returned = <<>>

\* C11 witness: six boundaries whose growth over all of them is negative
\* and over the last five is 15 MB a reload; the signal was given.
ReloadLeakOverLastFive ==
    /\ op = "_analyze_per_reload_patterns"
    /\ BoundariesHold(<<300, 200, 215, 230, 245, 260>>)
    /\ ReloadLeakThreshold = Mb(10)
    /\ returned = <<"cumulative_reload_leak">>

\* The chrome memory of the latest sample in history.
LatestChrome == det.memory_history[Len(det.memory_history)].chrome_memory

\* The chrome memory of the nine samples right before the latest.
NineBefore ==
    [i \in 1..(SpikeSamples - 1) |->
        det.memory_history[Len(det.memory_history) - SpikeSamples + i].chrome_memory]

\* C12: the spike detector returns "memory_spike_detected" exactly when the
\* history holds at least ten samples and the chrome memory of the latest is
\* strictly above one and a half times the mean of the nine before it, and
\* nothing otherwise; after nine samples averaging 100 MB a tenth of 160 MB
\* is a spike and one of 145 MB is not.
SpikeExactlyAboveOneAndAHalf ==
    op = "_detect_memory_spikes"
        => /\ returned
                = IF /\ Len(det.memory_history) >= SpikeSamples
                     /\ 2 * (SpikeSamples - 1) * LatestChrome > 3 * Sum(NineBefore)
                  THEN <<"memory_spike_detected">> ELSE <<>>
           /\ (/\ Len(det.memory_history) >= SpikeSamples
               /\ Sum(NineBefore) = (SpikeSamples - 1) * Mb(100))
                => /\ LatestChrome = Mb(160) => returned = <<"memory_spike_detected">>
                   /\ LatestChrome = Mb(145) => returned = <<>>

\* C12 witness: a sample of 1000 MB, nine of 100 MB and one of 160 MB: a
\* spike over the nine samples before it, though not over all ten.
SpikeOverNineBefore ==
    /\ op = "_detect_memory_spikes"
    /\ Len(det.memory_history) = SpikeSamples + 1
    /\ det.memory_history[1].chrome_memory = Mb(1000)
    /\ Sum(NineBefore) = (SpikeSamples - 1) * Mb(100)
    /\ LatestChrome = Mb(160)
    /\ returned = <<"memory_spike_detected">>

\* The last call raised instead of returning.
Raised == returned # <<>> /\ returned[1] = "KeyError"

\* The last call was one of add_memory_sample in which the leak analysis ran
\* and returned.
AnalysisRan ==
    /\ op = "ingest"
    /\ det.baseline_established
    /\ Len(det.memory_history) >= MinAnalysisSamples
    /\ ~Raised

Emitted(signal) == \E i \in 1..Len(returned) : returned[i] = signal

\* C13: when the leak analysis runs and a last-GC time exists,
\* "no_garbage_collection" is emitted exactly when more than
\* no_gc_duration_threshold_seconds have passed since it (and the other GC
\* signal is not); when no GC was ever observed,
\* "no_garbage_collection_detected" is emitted exactly when the history
\* holds more than 300 samples (and the other GC signal is not).
GcSignalsByRecency ==
    AnalysisRan
        => IF det.last_gc_time # None
           THEN /\ Emitted("no_garbage_collection")
                    <=> env.clock - det.last_gc_time[1]
                          > det.thresholds.js_heap_memory.no_gc_duration_threshold_seconds
                /\ ~Emitted("no_garbage_collection_detected")
           ELSE /\ Emitted("no_garbage_collection_detected")
                    <=> Len(det.memory_history) > NoGcEverSamples
                /\ ~Emitted("no_garbage_collection")

\* C13 witness: a history of more than 300 samples and a GC seen ten minutes
\* ago: the stale GC is reported, not the GC never seen.
StaleGcInLongHistory ==
    /\ AnalysisRan
    /\ Len(det.memory_history) > NoGcEverSamples
    /\ det.last_gc_time # None
    /\ env.clock - det.last_gc_time[1] = 2 * SlowPeriodSeconds
    /\ Emitted("no_garbage_collection")

\* The four signals of a window, in the order they are tested.
WindowSignals(window_name) ==
    << window_name \o "_rapid_growth", window_name \o "_excessive_growth",
       window_name \o "_percentage_growth", window_name \o "_sustained_growth" >>

RECURSIVE TrendSignalOrder(_)
TrendSignalOrder(windows) ==
    IF windows = <<>> THEN <<>>
    ELSE WindowSignals(Head(windows).name) \o TrendSignalOrder(Tail(windows))

\* Every signal, in the order of the groups: the trend signals of the
\* configured windows in their iteration order, the GC signals, the
\* per-reload signal, the spike signal.
SignalOrder ==
    TrendSignalOrder(det.trend_windows)
        \o << "no_garbage_collection", "no_garbage_collection_detected",
              "cumulative_reload_leak", "memory_spike_detected" >>

Rank(signal) == CHOOSE k \in 1..Len(SignalOrder) : SignalOrder[k] = signal

\* C14: every list a call of add_memory_sample returns holds signals of
\* SignalOrder only, and holds them in that order.
SignalsInGroupOrder ==
    (op = "ingest" /\ ~Raised)
        => /\ \A i \in 1..Len(returned) :
                \E k \in 1..Len(SignalOrder) : SignalOrder[k] = returned[i]
           /\ \A i, j \in 1..Len(returned) :
                i < j => Rank(returned[i]) < Rank(returned[j])

\* C14 witness: a list with trend signals of two windows, a GC signal, the
\* per-reload signal and the spike signal.
AllGroupsInOneList ==
    /\ op = "ingest"
    /\ returned = << "medium_term_window_seconds_rapid_growth",
                     "medium_term_window_seconds_percentage_growth",
                     "long_term_window_seconds_percentage_growth",
                     "no_garbage_collection",
                     "cumulative_reload_leak",
                     "memory_spike_detected" >>

\* The configuration holds every key the engine reads.
ValidConfig ==
    /\ constructor_key_errors(det.config) = <<>>
    /\ {"chrome_process_memory", "js_heap_memory", "per_reload_analysis"}
          \subseteq DOMAIN det.config.detection_thresholds
    /\ { "growth_rate_threshold_mb_per_min", "total_growth_threshold_mb",
          "percentage_growth_threshold" }
          \subseteq DOMAIN det.config.detection_thresholds.chrome_process_memory
    /\ "no_gc_duration_threshold_seconds"
          \in DOMAIN det.config.detection_thresholds.js_heap_memory
    /\ "cumulative_leak_per_reload_mb"
          \in DOMAIN det.config.detection_thresholds.per_reload_analysis

\* The metrics the last call of add_memory_sample was given.
LastMetrics == env.profile.inputs[env.last].metrics

\* The sample at the end of the history holds, in its field, what the
\* metrics hold under the key, and 0 if they lack the key.
StoredOrZero(field, key) ==
    det.memory_history[Len(det.memory_history)][field]
        = IF key \in DOMAIN LastMetrics THEN LastMetrics[key] ELSE 0

\* C15: a call of add_memory_sample on an engine with a valid configuration
\* never raises, whichever of the three numeric fields the metrics lack: it
\* stores 0 for each field that is absent and returns a list of signals.
AbsentNumbersAreZero ==
    (op = "ingest" /\ ValidConfig)
        => /\ ~Raised
           /\ \A i \in 1..Len(returned) :
                \E k \in 1..Len(SignalOrder) : SignalOrder[k] = returned[i]
           /\ StoredOrZero("chrome_memory", "chrome_memory_mb")
           /\ StoredOrZero("js_heap", "js_heap_mb")
           /\ StoredOrZero("system_memory", "system_memory_percent")

\* C15 witness: the analysis ran, and returned, on a history whose last
\* seven samples (the medium window) all came without any number, the call
\* itself included.
AnalysisOfBlankSamples ==
    /\ AnalysisRan
    /\ DOMAIN LastMetrics
          \cap {"chrome_memory_mb", "js_heap_mb", "system_memory_percent"} = {}
    /\ \A i \in 0..6 :
          LET sample == det.memory_history[Len(det.memory_history) - i]
          IN  sample.chrome_memory = 0 /\ sample.js_heap = 0
                /\ sample.system_memory = 0

\* C16 as stated: a configuration that lacks a threshold the engine reads
\* makes the construction fail, and no call of add_memory_sample on an
\* engine that was constructed fails for a key its configuration lacks.
ConstructionFailsFastAndNeverAgain ==
    /\ (op = "construct" /\ ~ValidConfig) => ~Constructed
    /\ op = "ingest" => ~Raised

GrowthFields == {"chrome_memory_growth_mb", "js_heap_growth_mb"}

\* f is the fraction value - b, for the baseline b
IsGrowthSince(f, value, b) ==
    /\ f.den > 0
    /\ f.num * b.den = (value * b.den - b.num) * f.den

\* C17: a call of get_memory_statistics leaves the engine as it is; what it
\* returns holds the two growth fields if the baseline is established and
\* neither of them if it is not, and the fields are the chrome memory and
\* the js heap of the latest sample minus the baseline values.
StatisticsGrowthOnlyWithBaseline ==
    [][ op' = "get_memory_statistics"
            => /\ det' = det
               /\ IF det.baseline_established
                  THEN /\ GrowthFields \subseteq DOMAIN returned'
                       /\ IsGrowthSince(returned'.chrome_memory_growth_mb,
                                         LastSample.chrome_memory,
                                         det.baseline_chrome_memory[1])
                       /\ IsGrowthSince(returned'.js_heap_growth_mb,
                                         LastSample.js_heap,
                                         det.baseline_js_heap[1])
                  ELSE GrowthFields \cap DOMAIN returned' = {} ]_vars

\* C17 witness: statistics read after the baseline was established and the
\* memory moved away from it.
StatisticsShowGrowth ==
    /\ op = "get_memory_statistics"
    /\ det.baseline_established
    /\ returned.chrome_memory_growth_mb.num > 0
    /\ returned.js_heap_growth_mb.num < 0
    /\ returned.chrome_memory_growth_mb.den > 1

\* The calls of the session so far that recorded a boundary: those whose
\* reload count was above that of the call before.
BoundariesRecorded ==
    Cardinality({ i \in 2..Len(ingested) :
                    ingested[i].reload_count > ingested[i - 1].reload_count })

\* The engine with only its last five boundaries.
WithLastFiveBoundaries(e) ==
    [e EXCEPT !.reload_boundaries = LastN(@, RecentReloads)]

\* C18: no step but a reset removes or moves a recorded boundary; the
\* statistics report as reload_boundaries_tracked the number of boundaries
\* recorded since construction or the last reset, however many; and the
\* per-reload analysis gives what it gives on the last five boundaries.
BoundariesAppendOnly ==
    [][ op' # "reset"
            => /\ Len(det'.reload_boundaries) >= Len(det.reload_boundaries)
               /\ SubSeq(det'.reload_boundaries, 1, Len(det.reload_boundaries))
                    = det.reload_boundaries
               /\ Len(det'.reload_boundaries) = BoundariesRecorded'
               /\ (op' = "get_memory_statistics" /\ ingested' # <<>>)
                    => returned'.reload_boundaries_tracked = BoundariesRecorded'
               /\ op' = "_analyze_per_reload_patterns"
                    => returned'
                         = analyze_per_reload_patterns(WithLastFiveBoundaries(det')) ]_vars

\* C18 witness: the statistics report six boundaries, one more than the
\* per-reload analysis reads.
StatisticsCountAllBoundaries ==
    /\ op = "get_memory_statistics"
    /\ Len(det.reload_boundaries) = RecentReloads + 1
    /\ returned.reload_boundaries_tracked = RecentReloads + 1

\* The samples of the history inside [now - seconds, now].
InsideWindow(seconds) ==
    SelectSeq(det.memory_history,
              LAMBDA sample : sample.timestamp >= env.clock - seconds)

ChromeThresholds == det.thresholds.chrome_process_memory

\* The signals of window w among the returned ones are those its trend
\* calls for: none if fewer than five samples are inside the window.
WindowSignalsAsTrend(w) ==
    LET inside == InsideWindow(w.seconds)
        trend == calculate_memory_trend(inside)
        expected ==
            IF Len(inside) < MinWindowSamples THEN {}
            ELSE { s \in {"_rapid_growth", "_excessive_growth",
                          "_percentage_growth", "_sustained_growth"} :
                    \/ /\ s = "_rapid_growth"
                       /\ trend.growth_rate.num
                            > ChromeThresholds.growth_rate_threshold_mb_per_min
                                * trend.growth_rate.den
                    \/ /\ s = "_excessive_growth"
                       /\ trend.total_growth
                            > ChromeThresholds.total_growth_threshold_mb
                    \/ /\ s = "_percentage_growth"
                       /\ trend.percentage_growth.num
                            > ChromeThresholds.percentage_growth_threshold
                                * trend.percentage_growth.den
                    \/ /\ s = "_sustained_growth"
                       /\ RSquaredHigh(trend.r_squared)
                       /\ trend.slope.num > 0 }
    IN  \A s \in {"_rapid_growth", "_excessive_growth",
                   "_percentage_growth", "_sustained_growth"} :
            Emitted(w.name \o s) <=> s \in expected

\* The windows, in configuration order, with at least five samples inside.
RECURSIVE WindowsWithFive(_)
WindowsWithFive(windows) ==
    IF windows = <<>> THEN <<>>
    ELSE (IF Len(InsideWindow(Head(windows).seconds)) >= MinWindowSamples
          THEN <<Head(windows).name>> ELSE <<>>)
         \o WindowsWithFive(Tail(windows))

\* C19: when the analysis runs, the signals of every configured window are
\* exactly those whose trend value is strictly above its threshold, and the
\* sustained growth signal exactly when r_squared > 0.8 and slope > 0; a
\* window with fewer than five samples inside [now - window, now] has no
\* entry in the trends and gives no signal.
TrendSignalsExactlyAboveThresholds ==
    /\ AnalysisRan
         => \A k \in 1..Len(det.trend_windows) :
                WindowSignalsAsTrend(det.trend_windows[k])
    /\ op = "_calculate_trends"
         => Field(returned, "name") = WindowsWithFive(det.trend_windows)

\* C19 witness: a page that grew by three megabytes over the medium window:
\* the short window, with two samples inside, gives no signal, and the
\* medium window gives its sustained growth signal and no other.
SustainedGrowthBelowThresholds ==
    /\ AnalysisRan
    /\ Len(InsideWindow(ShortTermWindowSeconds)) = 2
    /\ Emitted("medium_term_window_seconds_sustained_growth")
    /\ ~Emitted("medium_term_window_seconds_rapid_growth")
    /\ ~Emitted("medium_term_window_seconds_excessive_growth")
    /\ ~Emitted("medium_term_window_seconds_percentage_growth")
    /\ LastSample.chrome_memory = Mb(103)

\* The samples inside the window of the k-th returned trend.
SamplesOfEntry(k) ==
    LET i == CHOOSE i \in 1..Len(det.trend_windows) :
                 det.trend_windows[i].name = returned[k].name
    IN  InsideWindow(det.trend_windows[i].seconds)

FirstValue(k) == SamplesOfEntry(k)[1].chrome_memory

TotalGrowth(k) ==
    SamplesOfEntry(k)[Len(SamplesOfEntry(k))].chrome_memory - FirstValue(k)

\* The percentage of the k-th returned trend is TotalGrowth(k) / divisor * 100.
PercentageOver(k, divisor) ==
    LET p == returned[k].trend.percentage_growth
    IN  p.num * divisor = TotalGrowth(k) * 100 * p.den

\* C20 as stated: the percentage of every window is its total growth over
\* max(first value, 1 MB), times 100, whatever the first value.
PercentageOverFirstOrOneIfLarger ==
    op = "_calculate_trends"
        => \A k \in 1..Len(returned) :
                PercentageOver(k, IF FirstValue(k) > Mb(1) THEN FirstValue(k)
                                  ELSE Mb(1))

\* C20, amended: the percentage of every window is its total growth over the
\* first value, times 100, when the first value is above zero, a fraction of
\* a megabyte included; over 1 MB when the first value is zero or negative.
PercentageOverFirstUnlessNotPositive ==
    op = "_calculate_trends"
        => \A k \in 1..Len(returned) :
                PercentageOver(k, IF FirstValue(k) > 0 THEN FirstValue(k)
                                  ELSE Mb(1))

\* C20 witness: the trends of a window that starts below one megabyte and
\* above zero, and grows.
TrendFromFractionOfMegabyte ==
    /\ op = "_calculate_trends"
    /\ \E k \in 1..Len(returned) :
            /\ FirstValue(k) > 0
            /\ FirstValue(k) < Mb(1)
            /\ TotalGrowth(k) > 0

AllAlike(values) == \A i, j \in 1..Len(values) : values[i] = values[j]

\* slope and r_squared of a regression, or of a trend, are both 0
FlatFit(r) == r.slope.num = 0 /\ r.r_squared.sxy = 0

\* C21: the trend of the samples of the history has, with two samples or
\* more, the growth rate (last - first) / elapsed minutes, and 0 when no
\* time has elapsed; the regression and the trend have slope 0 and
\* r_squared 0 when all times coincide or fewer than 2 points are given, and
\* r_squared 0 when all values are equal; and the analysis gives no
\* sustained growth signal for a window of constant memory.
TrendDegenerateCasesAreZero ==
    LET samples == det.memory_history
        n == Len(samples)
        elapsed == samples[n].timestamp - samples[1].timestamp
        total == samples[n].chrome_memory - samples[1].chrome_memory
        times == Field(samples, "timestamp")
        values == Field(samples, "chrome_memory")
    IN  /\ op = "_calculate_memory_trend"
            => /\ n >= 2 /\ elapsed = 0 => returned.growth_rate.num = 0
               /\ n >= 2 /\ elapsed > 0
                    => returned.growth_rate.num * elapsed
                        = total * 60 * returned.growth_rate.den
               /\ n < 2 => returned.growth_rate.num = 0
        /\ op \in {"_calculate_memory_trend", "_linear_regression"}
            => /\ n < 2 \/ AllAlike(times) => FlatFit(returned)
               /\ AllAlike(values) => returned.r_squared.sxy = 0
        /\ AnalysisRan
            => \A k \in 1..Len(det.trend_windows) :
                  AllAlike(Field(InsideWindow(det.trend_windows[k].seconds),
                                 "chrome_memory"))
                    => ~Emitted(det.trend_windows[k].name \o "_sustained_growth")

\* C21 witness: the trend of three samples that have one timestamp, the
\* last of them 60 MB above the first.
TrendOverNoTime ==
    /\ op = "_calculate_memory_trend"
    /\ Len(det.memory_history) = 3
    /\ AllAlike(Field(det.memory_history, "timestamp"))
    /\ det.memory_history[3].chrome_memory
         = det.memory_history[1].chrome_memory + Mb(60)
    /\ returned.total_growth = Mb(60)

\* The samples lie on a line of positive growth and have distinct
\* (increasing) timestamps.
OnRisingLine(samples) ==
    LET n == Len(samples)
        dt(i) == samples[i].timestamp - samples[1].timestamp
        dy(i) == samples[i].chrome_memory - samples[1].chrome_memory
    IN  /\ n >= 2
        /\ dy(n) > 0
        /\ \A i \in 2..n : samples[i].timestamp > samples[i - 1].timestamp
        /\ \A i \in 1..n : dy(i) * dt(n) = dy(n) * dt(i)

\* The trend is one of slope rise / run and of r_squared 1.
ExactFit(trend, rise, run) ==
    /\ trend.slope.num * run = rise * trend.slope.den
    /\ trend.r_squared.sxy * trend.r_squared.sxy
         = trend.r_squared.sxx * trend.r_squared.syy

BaselineKept ==
    /\ det'.baseline_established = det.baseline_established
    /\ det'.baseline_chrome_memory = det.baseline_chrome_memory
    /\ det'.baseline_js_heap = det.baseline_js_heap

\* b is the mean of field f over the ten latest samples of the history
IsMeanOfLatestTen(b, f) ==
    LET h == det.memory_history
    IN  /\ b # None
        /\ b[1].num * BaselineSamples
             = b[1].den * Sum([i \in 1..BaselineSamples |->
                                 h[Len(h) - BaselineSamples + i][f]])

GateSuppressesSignalsOnly ==
    [][ op' = "ingest"
            => LET new == ingested'[Len(ingested')]
                   h == det'.memory_history
                   gated == \/ ~det'.baseline_established
                            \/ Len(h) < MinAnalysisSamples
                   due == /\ ingested # <<>>
                          /\ new.reload_count > LastSample.reload_count
                   dropped == /\ ingested # <<>>
                              /\ 10 * new.js_heap < 9 * LastSample.js_heap
               IN  /\ h = LastN(Append(det.memory_history, new), Capacity)
                   /\ h[Len(h)] = new
                   /\ due => det'.reload_boundaries
                               = Append(det.reload_boundaries, BoundaryOf(new))
                   /\ dropped => /\ det'.last_gc_time # None
                                 /\ det'.last_gc_time[1] >= new.timestamp
                   /\ gated => returned' = <<>> ]_vars

\* C24 witness: a call before the 60th returned the empty list and left
\* its sample in the history, a reload boundary of its own and a GC time of
\* its own.
GatedCallUpdatedState ==
    /\ op = "ingest"
    /\ Len(ingested) >= 2
    /\ Len(ingested) < MinAnalysisSamples
    /\ returned = <<>>
    /\ det.memory_history[Len(det.memory_history)] = LastSample
    /\ det.reload_boundaries # <<>>
    /\ det.reload_boundaries[Len(det.reload_boundaries)] = BoundaryOf(LastSample)
    /\ det.last_gc_time = Some(LastSample.timestamp)

\* A call since construction or the last reset has seen the heap drop.
GcSeenInSession ==
    \E k \in 2..Len(ingested) :
        10 * ingested[k].js_heap < 9 * ingested[k - 1].js_heap

\* C27: no list a call of add_memory_sample returns holds both GC signals,
\* and no call returns "no_garbage_collection_detected" once a call since
\* construction or the last reset has recorded a GC event.
GcSignalsExcludeEachOther ==
    op = "ingest" /\ ~Raised
        => /\ ~(/\ Emitted("no_garbage_collection")
                /\ Emitted("no_garbage_collection_detected"))
           /\ GcSeenInSession => ~Emitted("no_garbage_collection_detected")

\* C27 witness: the last call of a session of more than 301 samples was
\* the first to see the heap drop, and returned neither GC signal.
FirstGcEndsNeverDetected ==
    /\ AnalysisRan
    /\ Len(det.memory_history) > NoGcEverSamples + 1
    /\ GcSeenInSession
    /\ det.last_gc_time = Some(LastSample.timestamp)
    /\ ~Emitted("no_garbage_collection_detected")
    /\ ~Emitted("no_garbage_collection")

\* C28: with a capacity of at most 300 samples no call returns
\* "no_garbage_collection_detected", however many samples were ingested;
\* with a larger capacity, and no GC event seen since construction or the
\* last reset, every call from the 301st on returns it and none before.
NeverDetectedReadsHistoryLength ==
    op = "ingest" /\ ~Raised
        => /\ Capacity <= NoGcEverSamples
                => ~Emitted("no_garbage_collection_detected")
           /\ Capacity > NoGcEverSamples /\ ~GcSeenInSession
                => ( Emitted("no_garbage_collection_detected")
                        <=> Len(ingested) > NoGcEverSamples )

\* C28 witness: more than 300 samples were ingested without a GC event
\* into a history that holds 300, and the call returned no
\* "no_garbage_collection_detected".
NeverDetectedInCappedHistory ==
    /\ AnalysisRan
    /\ Capacity = NoGcEverSamples
    /\ Len(ingested) > NoGcEverSamples
    /\ Len(det.memory_history) = NoGcEverSamples
    /\ ~GcSeenInSession
    /\ det.last_gc_time = None
    /\ ~Emitted("no_garbage_collection_detected")

-----------------------------------------------------------------------------
(* Further properties of add_memory_sample and reset_detector, under Spec. *)

\* The calls of the session, other than its first, whose reload count
\* exceeded that of the call before.
CallsWithHigherReloadCount ==
    { k \in 2..Len(ingested) :
        ingested[k].reload_count > ingested[k - 1].reload_count }

\* C26: when the reload counts passed since construction or the last reset
\* are non-decreasing, the reload counts of the recorded boundaries are
\* strictly increasing, and there are as many boundaries as calls, other
\* than the first, whose reload count exceeded that of the call before.
BoundariesStrictlyIncreasing ==
    ReloadCountsNonDecreasing
        => /\ \A i \in 1..(Len(det.reload_boundaries) - 1) :
                det.reload_boundaries[i].reload_count
                    < det.reload_boundaries[i + 1].reload_count
           /\ Len(det.reload_boundaries) = Cardinality(CallsWithHigherReloadCount)

\* C26 witness: the reload counts 0, 1, 1, 2 recorded the boundaries of
\* reload 1 and of reload 2, and none for the repeated count.
RepeatedCountRecordsNoBoundary ==
    /\ op = "ingest"
    /\ Field(ingested, "reload_count") = <<0, 1, 1, 2>>
    /\ Field(det.reload_boundaries, "reload_count") = <<1, 2>>

-----------------------------------------------------------------------------
(* Properties of callers that are not serialized, under ConcurrentSpec.    *)

\* C25: the chrome baseline is written at most once by each thread, and it
\* is written more than once only if a call has begun while another was in
\* progress: with serialized calls the baseline is set once, and without
\* there are runs that write it twice (the witness).
BaselineSetOnceIfSerialized ==
    /\ Len(env.written) <= NumThreads
    /\ Len(env.written) > 1 => env.overlapped

\* C25 witness: two calls have written the baseline, from two slices of ten
\* samples that have different means, and the engine holds the mean of the
\* second.
BaselineWrittenTwice ==
    /\ \A t \in Threads : threads[t].pc = "idle"
    /\ Len(env.written) = 2
    /\ Len(env.written[1]) = BaselineSamples
    /\ Len(env.written[2]) = BaselineSamples
    /\ env.written[1] # env.written[2]
    /\ Mean(Field(env.written[1], "chrome_memory"))
         # Mean(Field(env.written[2], "chrome_memory"))
    /\ det.baseline_established
    /\ det.baseline_chrome_memory
         = Some(Mean(Field(env.written[2], "chrome_memory")))

-----------------------------------------------------------------------------
(* Properties of the website monitor, under MonitorSpec.                   *)

\* positions inside the reload loop
InLoop ==
    monitor.pc \in {"while", "goto", "screenshot",
                    "capture_performance_metrics", "capture_crash_data",
                    "sleep"}

\* C30: reload_count is the number of loads attempted, the one about to be
\* made included, and a step raises it by one at most; once the body of a
\* reload has raised, no load is attempted and reload_count stays as it is;
\* and start_monitoring is left only with the browser closed, once.
MonitorStopsAtFirstFailure ==
    /\ [](/\ monitor.reload_count
               = monitor.loads + (IF monitor.pc = "goto" THEN 1 ELSE 0)
          /\ InLoop => (monitor.browser = "open" /\ monitor.closes = 0)
          /\ ~InLoop => (monitor.pc \in {"close", "done"})
          /\ monitor.pc = "done"
                => (monitor.browser = "closed" /\ monitor.closes = 1))
    /\ [][ /\ monitor'.reload_count \in
                    {monitor.reload_count, monitor.reload_count + 1}
           /\ (monitor'.reload_count # monitor.reload_count)
                   => (monitor'.pc = "goto")
           /\ monitor.failed
                   => ( /\ monitor'.reload_count = monitor.reload_count
                        /\ monitor'.loads = monitor.loads
                        /\ monitor'.pc \notin {"while", "goto"}
                        /\ monitor'.failed ) ]_vars

\* C30 witness: the third load raised, capturing the crash data raised
\* too, and start_monitoring was left, raising, with the browser closed and
\* crash_detected still false.
ClosedAfterCrashCaptureRaised ==
    /\ monitor.pc = "done"
    /\ monitor.reload_count = 3
    /\ monitor.loads = 3
    /\ monitor.failed
    /\ ~monitor.crash_detected
    /\ monitor.raised = Some("Exception")
    /\ monitor.browser = "closed"

====
